---- MODULE Spec2Model ----
(***************************************************************************)
(* State-machine model of the MPU6050 driver (src/mpu6050.rs): register    *)
(* access over the I2C bus primitive, the FIFO controller, the pacing      *)
(* loops, construction/teardown of the channel handle, and the FIFO        *)
(* decoder.  The sensor itself (registers, on-device FIFO) is modelled as  *)
(* the environment the driver talks to.                                    *)
(***************************************************************************)
EXTENDS Integers, Sequences, FiniteSets, TLC

VARIABLES
    fifo_enabled,   \* Mpu6050.fifo_enabled: the tracked Enabled/Disabled state
    dev,            \* the sensor: registers, FIFO, overflow bit
    bus,            \* bus calls (and settle delays) issued by the last operation
    result,         \* what the last operation returned, with a snapshot of its start
    chan,           \* the channel handle: driver lifecycle, opens and closes
    loop,           \* the running pacing loop (stream / stream_fifo), if any
    stop_signal,    \* the shared stop flag of background acquisition
    buffer,         \* input of the FIFO decoder
    app             \* the application around the driver: GUI connect/disconnect, collector

vars == <<fifo_enabled, dev, bus, result, chan, loop, stop_signal, buffer, app>>

(***************************************************************************)
(* Program constants                                                       *)
(***************************************************************************)
MPU6050_ADDRESS == 104
REG_WHO_AM_I == 117
REG_PWR_MGMT_1 == 107
REG_ACCEL_CONFIG == 28
REG_GYRO_CONFIG == 27
REG_ACCEL_XOUT_H == 59
REG_GYRO_XOUT_H == 67
REG_SMPLRT_DIV == 25
REG_CONFIG == 26
REG_FIFO_EN == 35
REG_INT_STATUS == 58
REG_USER_CTRL == 106
REG_FIFO_COUNTH == 114
REG_FIFO_COUNTL == 115
REG_FIFO_R_W == 116
FIFO_EN_ALL_SENSORS == 120
USER_CTRL_FIFO_EN == 64
USER_CTRL_FIFO_RESET == 4
INT_STATUS_FIFO_OVERFLOW == 16
FIFO_SAMPLE_SIZE == 12
WHO_AM_I_VALUE == 104
FT_OK == 0
FT_IO_ERROR == 4

\* I2C transfer options, as a set of flags instead of a bit mask
START_BIT == "START_BIT"
STOP_BIT == "STOP_BIT"
BREAK_ON_NACK == "BREAK_ON_NACK"
NACK_LAST_BYTE == "NACK_LAST_BYTE"
FAST_TRANSFER_BYTES == "FAST_TRANSFER_BYTES"

(***************************************************************************)
(* Bounds of the model                                                     *)
(***************************************************************************)
FifoCapacity == 28      \* bytes the on-device FIFO holds (1024 on the part)
MaxBusCalls == 10       \* log positions of one operation at which the bus may fail
MaxShort == 2           \* log positions at which it may report a wrong count

Min(a, b) == IF a < b THEN a ELSE b
Max(a, b) == IF a > b THEN a ELSE b

\* v has the (power of two) bit set
HasBit(v, bit) == (v \div bit) % 2 = 1
ClearBit(v, bit) == IF HasBit(v, bit) THEN v - bit ELSE v

\* u16::from_be_bytes and i16::from_be_bytes
U16FromBe(hi, lo) == hi * 256 + lo

\* mutant: the pair is read as an unsigned value
I16FromBe_Unsigned(hi, lo) == hi * 256 + lo

I16FromBe(hi, lo) == IF hi >= 128 THEN hi * 256 + lo - 65536 ELSE hi * 256 + lo

(***************************************************************************)
(* The sensor                                                              *)
(***************************************************************************)
WritableRegs == {REG_PWR_MGMT_1, REG_ACCEL_CONFIG, REG_GYRO_CONFIG, REG_SMPLRT_DIV,
                 REG_CONFIG, REG_FIFO_EN, REG_USER_CTRL}

\* the sensor's measurement stream: two different samples, repeating
StreamPeriod == 2 * FIFO_SAMPLE_SIZE

\* the p-th byte of the sensor's measurement stream
StreamByte(p) == (p * 41 + 131) % 256

\* the 14 measurement registers from ACCEL_XOUT_H on: accel, temperature, gyro
MeasByte(d, i) ==
    LET base == (d.phase \div FIFO_SAMPLE_SIZE) * FIFO_SAMPLE_SIZE IN
    IF i < 6 THEN StreamByte(base + i)
    ELSE IF i < 8 THEN 200 + i
    ELSE StreamByte(base + i - 2)

\* value a read of register a returns
RegValue(d, a) ==
    IF a = REG_FIFO_COUNTH THEN Len(d.fifo) \div 256
    ELSE IF a = REG_FIFO_COUNTL THEN Len(d.fifo) % 256
    ELSE IF a = REG_WHO_AM_I THEN d.who
    ELSE IF a = REG_INT_STATUS
        THEN 1 + (IF d.overflow THEN INT_STATUS_FIFO_OVERFLOW ELSE 0)
    ELSE IF a \in WritableRegs THEN d.regs[a]
    ELSE IF a >= REG_ACCEL_XOUT_H /\ a < REG_ACCEL_XOUT_H + 14
        THEN MeasByte(d, a - REG_ACCEL_XOUT_H)
    ELSE 0

\* a register write arriving at the sensor; the FIFO-reset bit empties the
\* FIFO (the next sample stored starts at its first byte) and clears itself
DevWrite(d, reg, value) ==
    IF reg = REG_USER_CTRL
    THEN IF HasBit(value, USER_CTRL_FIFO_RESET)
         THEN [d EXCEPT !.regs[REG_USER_CTRL] = ClearBit(value, USER_CTRL_FIFO_RESET),
                        !.fifo = <<>>, !.phase = 0]
         ELSE [d EXCEPT !.regs[REG_USER_CTRL] = value]
    ELSE IF reg \in WritableRegs THEN [d EXCEPT !.regs[reg] = value]
    ELSE d

\* the bytes a read of count bytes at the register pointer returns
DevReadData(d, ptr, count) ==
    IF ptr = REG_FIFO_R_W
    THEN [i \in 1..count |-> IF i <= Len(d.fifo) THEN d.fifo[i] ELSE 255]
    ELSE [i \in 1..count |-> RegValue(d, ptr + i - 1)]

\* the sensor after that read: the FIFO port pops, the interrupt status clears
DevReadEffect(d, ptr, count) ==
    IF ptr = REG_FIFO_R_W
    THEN [d EXCEPT !.fifo = SubSeq(@, Min(count, Len(@)) + 1, Len(@))]
    ELSE IF ptr = REG_INT_STATUS THEN [d EXCEPT !.overflow = FALSE]
    ELSE d

\* the sensor is storing samples: FIFO enabled and routed
DevFifoRunning(d) ==
    /\ HasBit(d.regs[REG_USER_CTRL], USER_CTRL_FIFO_EN)
    /\ d.regs[REG_FIFO_EN] # 0

\* the sensor stores k more bytes; a full FIFO drops its oldest bytes and
\* raises the overflow bit
DevAppend(d, k) ==
    LET new == [i \in 1..k |-> StreamByte((d.phase + i - 1) % StreamPeriod)]
        all == d.fifo \o new
        over == Len(all) > FifoCapacity
    IN [d EXCEPT !.fifo = IF over THEN SubSeq(all, Len(all) - FifoCapacity + 1, Len(all))
                          ELSE all,
                 !.overflow = @ \/ over,
                 !.phase = (@ + k) % StreamPeriod]

(***************************************************************************)
(* The bus primitive.  An operation runs in a context c: the driver's      *)
(* tracked state, the sensor, the register pointer the last address write  *)
(* latched, the log of what it did on the bus so far, and the plan of how  *)
(* the bus will misbehave: plan.fault is the position (in the log) of the  *)
(* call that returns a non-ok status, plan.short the position of the call  *)
(* that reports a transferred count of 0; 0 = never.                       *)
(***************************************************************************)
Plans == {p \in [fault : 0..MaxBusCalls, short : 0..MaxShort] :
              p.fault = 0 \/ p.short = 0}
NoFault == [fault |-> 0, short |-> 0]

CtxOn(d, plan) ==
    [fifo_enabled |-> fifo_enabled, dev |-> d, ptr |-> 0, bus |-> <<>>, plan |-> plan]
Ctx(plan) == CtxOn(dev, plan)

\* transferred count the library reports for size bytes: bits under fast transfer
Reported(c, size, options) ==
    IF c.plan.short = Len(c.bus) + 1 THEN 0
    ELSE IF FAST_TRANSFER_BYTES \in options THEN 8 * size ELSE size

I2C_DeviceWrite(c, bytes, options) ==
    LET fails == c.plan.fault = Len(c.bus) + 1
        status == IF fails THEN FT_IO_ERROR ELSE FT_OK
        transferred == IF fails THEN 0 ELSE Reported(c, Len(bytes), options)
        d2 == IF Len(bytes) = 2 THEN DevWrite(c.dev, bytes[1], bytes[2]) ELSE c.dev
        entry == [call |-> "write", reg |-> bytes[1], size |-> Len(bytes),
                  bytes |-> bytes, options |-> options, status |-> status,
                  transferred |-> transferred]
    IN [c |-> [c EXCEPT !.dev = IF fails THEN @ ELSE d2,
                        !.ptr = IF fails THEN @ ELSE bytes[1],
                        !.bus = Append(@, entry)],
        status |-> status, transferred |-> transferred, data |-> <<>>]

I2C_DeviceRead(c, size, options) ==
    LET fails == c.plan.fault = Len(c.bus) + 1
        status == IF fails THEN FT_IO_ERROR ELSE FT_OK
        transferred == IF fails THEN 0 ELSE Reported(c, size, options)
        entry == [call |-> "read", reg |-> c.ptr, size |-> size,
                  bytes |-> <<>>, options |-> options, status |-> status,
                  transferred |-> transferred]
    IN [c |-> [c EXCEPT !.dev = IF fails THEN @ ELSE DevReadEffect(@, c.ptr, size),
                        !.bus = Append(@, entry)],
        status |-> status, transferred |-> transferred,
        data |-> IF fails THEN [i \in 1..size |-> 0] ELSE DevReadData(c.dev, c.ptr, size)]

\* std::thread::sleep: a settle delay, kept in the log to show its place
sleep_ms(c, ms) ==
    [c EXCEPT !.bus = Append(@, [call |-> "sleep", reg |-> 0, size |-> ms,
                                 bytes |-> <<>>, options |-> {}, status |-> FT_OK,
                                 transferred |-> 0])]

(***************************************************************************)
(* Register access.  Every function returns [c, err, val]: the context     *)
(* after it, "Ok" or the error kind, and the value or the error's payload. *)
(***************************************************************************)
Ok(c, v) == [c |-> c, err |-> "Ok", val |-> v]
Err(c, e, v) == [c |-> c, err |-> e, val |-> v]
Failed(r) == r.err # "Ok"

\* Rust's `let r = x?; F(r)`: x is evaluated once; its error is returned,
\* otherwise the rest of the function runs on its result
Try(x, F(_)) == CHOOSE y \in {IF Failed(r) THEN r ELSE F(r) : r \in {x}} : TRUE

\* `let v = x; F(v)`, with x evaluated once
Let(x, F(_)) == CHOOSE y \in {F(v) : v \in {x}} : TRUE

\* mutant: the transferred count is compared with the two bytes sent
write_register_counted(c, reg, value) ==
    Let(I2C_DeviceWrite(c, <<reg, value>>, {START_BIT, STOP_BIT, FAST_TRANSFER_BYTES}),
        LAMBDA w :
    IF w.status # FT_OK THEN Err(w.c, "FtdiError", w.status) ELSE
    IF w.transferred # 2
    THEN Err(w.c, "TransferError", [expected |-> 2, actual |-> w.transferred])
    ELSE Ok(w.c, 0))

write_register(c, reg, value) ==
    Let(I2C_DeviceWrite(c, <<reg, value>>, {START_BIT, STOP_BIT, FAST_TRANSFER_BYTES}),
        LAMBDA w :
    IF w.status # FT_OK THEN Err(w.c, "FtdiError", w.status) ELSE Ok(w.c, 0))

\* mutant: the transferred count of the read is not looked at
read_register_unchecked(c, reg) ==
    Let(I2C_DeviceWrite(c, <<reg>>, {START_BIT, BREAK_ON_NACK}), LAMBDA w :
    IF w.status # FT_OK THEN Err(w.c, "FtdiError", w.status) ELSE
    Let(I2C_DeviceRead(w.c, 1, {START_BIT, STOP_BIT, NACK_LAST_BYTE}), LAMBDA r :
    IF r.status # FT_OK THEN Err(r.c, "FtdiError", r.status) ELSE
    Ok(r.c, r.data[1])))

read_register(c, reg) ==
    Let(I2C_DeviceWrite(c, <<reg>>, {START_BIT, BREAK_ON_NACK}), LAMBDA w :
    IF w.status # FT_OK THEN Err(w.c, "FtdiError", w.status) ELSE
    Let(I2C_DeviceRead(w.c, 1, {START_BIT, STOP_BIT, NACK_LAST_BYTE}), LAMBDA r :
    IF r.status # FT_OK THEN Err(r.c, "FtdiError", r.status) ELSE
    IF r.transferred # 1
    THEN Err(r.c, "TransferError", [expected |-> 1, actual |-> r.transferred])
    ELSE Ok(r.c, r.data[1])))

read_registers(c, reg, count) ==
    Let(I2C_DeviceWrite(c, <<reg>>, {START_BIT, BREAK_ON_NACK, FAST_TRANSFER_BYTES}),
        LAMBDA w :
    IF w.status # FT_OK THEN Err(w.c, "FtdiError", w.status) ELSE
    Let(I2C_DeviceRead(w.c, count,
                       {START_BIT, STOP_BIT, NACK_LAST_BYTE, FAST_TRANSFER_BYTES}),
        LAMBDA r :
    IF r.status # FT_OK THEN Err(r.c, "FtdiError", r.status) ELSE
    Ok(r.c, r.data)))

read_fifo_count_raw(c) ==
    Try(read_register(c, REG_FIFO_COUNTH), LAMBDA high :
    Try(read_register(high.c, REG_FIFO_COUNTL), LAMBDA low :
    Ok(low.c, U16FromBe(high.val, low.val))))

read_fifo_raw(c, count) ==
    IF count = 0 THEN Ok(c, <<>>) ELSE read_registers(c, REG_FIFO_R_W, count)

\* mutant: the overflow bit is read and ignored
check_fifo_overflow_ignored(c) ==
    Try(read_register(c, REG_INT_STATUS), LAMBDA int_status :
    Ok(int_status.c, FALSE))

check_fifo_overflow(c) ==
    Try(read_register(c, REG_INT_STATUS), LAMBDA int_status :
    Ok(int_status.c, HasBit(int_status.val, INT_STATUS_FIFO_OVERFLOW)))

(***************************************************************************)
(* The FIFO decoder and read_all                                           *)
(***************************************************************************)
\* returns [err, val]; it touches no bus
parse_fifo_data(buf) ==
    IF Len(buf) % FIFO_SAMPLE_SIZE # 0
    THEN [err |-> "InvalidFifoConfig", val |-> Len(buf)]
    ELSE LET num_samples == Len(buf) \div FIFO_SAMPLE_SIZE IN
         [err |-> "Ok",
          val |-> [i \in 1..num_samples |->
                     LET offset == (i - 1) * FIFO_SAMPLE_SIZE
                         \* chunk[k] of the code is chunk[k + 1] here
                         chunk == SubSeq(buf, offset + 1, offset + FIFO_SAMPLE_SIZE)
                     IN [accel_x |-> I16FromBe(chunk[1], chunk[2]),
                         accel_y |-> I16FromBe(chunk[3], chunk[4]),
                         accel_z |-> I16FromBe(chunk[5], chunk[6]),
                         gyro_x |-> I16FromBe(chunk[7], chunk[8]),
                         gyro_y |-> I16FromBe(chunk[9], chunk[10]),
                         gyro_z |-> I16FromBe(chunk[11], chunk[12])]]]

\* mutant: the gyroscope is decoded from the bytes right after the accelerometer
read_all_with_temperature(c) ==
    Try(read_registers(c, REG_ACCEL_XOUT_H, 14), LAMBDA r :
    LET data == r.val IN
    Ok(r.c, [accel_x |-> I16FromBe(data[1], data[2]),
             accel_y |-> I16FromBe(data[3], data[4]),
             accel_z |-> I16FromBe(data[5], data[6]),
             gyro_x |-> I16FromBe(data[7], data[8]),
             gyro_y |-> I16FromBe(data[9], data[10]),
             gyro_z |-> I16FromBe(data[11], data[12])]))

read_all(c) ==
    Try(read_registers(c, REG_ACCEL_XOUT_H, 14), LAMBDA r :
    LET data == r.val IN   \* data[k] of the code is data[k + 1] here
    Ok(r.c, [accel_x |-> I16FromBe(data[1], data[2]),
             accel_y |-> I16FromBe(data[3], data[4]),
             accel_z |-> I16FromBe(data[5], data[6]),
             gyro_x |-> I16FromBe(data[9], data[10]),
             gyro_y |-> I16FromBe(data[11], data[12]),
             gyro_z |-> I16FromBe(data[13], data[14])]))

(***************************************************************************)
(* The FIFO controller                                                     *)
(***************************************************************************)
\* mutant: the sample rate divider is left as it was
disable_fifo_keeps_rate(c) ==
    Try(write_register(c, REG_USER_CTRL, 0), LAMBDA w1 :
    Try(write_register(w1.c, REG_FIFO_EN, 0), LAMBDA w2 :
    Try(write_register(w2.c, REG_CONFIG, 0), LAMBDA w4 :
    Ok([w4.c EXCEPT !.fifo_enabled = FALSE], 0))))

disable_fifo(c) ==
    Try(write_register(c, REG_USER_CTRL, 0), LAMBDA w1 :
    Try(write_register(w1.c, REG_FIFO_EN, 0), LAMBDA w2 :
    Try(write_register(w2.c, REG_SMPLRT_DIV, 0), LAMBDA w3 :
    Try(write_register(w3.c, REG_CONFIG, 0), LAMBDA w4 :
    Ok([w4.c EXCEPT !.fifo_enabled = FALSE], 0)))))

\* mutant: the divider is the period, not the period less one
Divider_Period(sample_rate_hz) == 1000 \div sample_rate_hz

\* (gyro_rate / sample_rate_hz).saturating_sub(1)
Divider(sample_rate_hz) == Max(0, (1000 \div sample_rate_hz) - 1)

\* mutant: the upper limit is off by one
RateInRange_OffByOne(sample_rate_hz) == ~(sample_rate_hz < 4 \/ sample_rate_hz > 1001)

RateInRange(sample_rate_hz) == ~(sample_rate_hz < 4 \/ sample_rate_hz > 1000)

\* mutant: the FIFO-enable bit is set before the routing mask
enable_fifo_before_routing(c, sample_rate_hz) ==
    IF ~RateInRange(sample_rate_hz)
    THEN Err(c, "InvalidParameter", sample_rate_hz)
    ELSE
    Try(IF c.fifo_enabled THEN disable_fifo(c) ELSE Ok(c, 0), LAMBDA d :
    Try(write_register(d.c, REG_CONFIG, 1), LAMBDA w1 :
    Try(write_register(w1.c, REG_SMPLRT_DIV, Divider(sample_rate_hz) % 256), LAMBDA w2 :
    Try(write_register(w2.c, REG_USER_CTRL, USER_CTRL_FIFO_RESET), LAMBDA w3 :
    Try(write_register(sleep_ms(w3.c, 10), REG_USER_CTRL, USER_CTRL_FIFO_EN), LAMBDA w4 :
    Try(write_register(w4.c, REG_FIFO_EN, FIFO_EN_ALL_SENSORS), LAMBDA w5 :
    Ok([w5.c EXCEPT !.fifo_enabled = TRUE], 0)))))))

enable_fifo(c, sample_rate_hz) ==
    IF ~RateInRange(sample_rate_hz)
    THEN Err(c, "InvalidParameter", sample_rate_hz)
    ELSE
    Try(IF c.fifo_enabled THEN disable_fifo(c) ELSE Ok(c, 0), LAMBDA d :
    Try(write_register(d.c, REG_CONFIG, 1), LAMBDA w1 :
    \* divider as u8
    Try(write_register(w1.c, REG_SMPLRT_DIV, Divider(sample_rate_hz) % 256), LAMBDA w2 :
    Try(write_register(w2.c, REG_USER_CTRL, USER_CTRL_FIFO_RESET), LAMBDA w3 :
    Try(write_register(sleep_ms(w3.c, 10), REG_FIFO_EN, FIFO_EN_ALL_SENSORS), LAMBDA w4 :
    Try(write_register(w4.c, REG_USER_CTRL, USER_CTRL_FIFO_EN), LAMBDA w5 :
    Ok([w5.c EXCEPT !.fifo_enabled = TRUE], 0)))))))

get_fifo_count(c) == read_fifo_count_raw(c)

\* mutant: the reset bit is forgotten, the FIFO keeps its content
reset_fifo_keeps_data(c) ==
    Try(write_register(c, REG_USER_CTRL, USER_CTRL_FIFO_EN), LAMBDA w1 :
    Try(write_register(sleep_ms(w1.c, 1), REG_USER_CTRL, USER_CTRL_FIFO_EN), LAMBDA w2 :
    Ok(w2.c, 0)))

\* mutant: the reset records the controller as Enabled
reset_fifo_marks_enabled(c) ==
    Try(write_register(c, REG_USER_CTRL, USER_CTRL_FIFO_RESET + USER_CTRL_FIFO_EN),
        LAMBDA w1 :
    Try(write_register(sleep_ms(w1.c, 1), REG_USER_CTRL, USER_CTRL_FIFO_EN), LAMBDA w2 :
    Ok([w2.c EXCEPT !.fifo_enabled = TRUE], 0)))

reset_fifo(c) ==
    Try(write_register(c, REG_USER_CTRL, USER_CTRL_FIFO_RESET + USER_CTRL_FIFO_EN),
        LAMBDA w1 :
    Try(write_register(sleep_ms(w1.c, 1), REG_USER_CTRL, USER_CTRL_FIFO_EN), LAMBDA w2 :
    Ok(w2.c, 0)))

\* count / FIFO_SAMPLE_SIZE as u16
SamplesLost(count) == count \div FIFO_SAMPLE_SIZE

\* mutant: rounds up to whole samples instead of down
BytesToRead_RoundUp(fifo_count) ==
    LET num_samples == (fifo_count + FIFO_SAMPLE_SIZE - 1) \div FIFO_SAMPLE_SIZE IN
    num_samples * FIFO_SAMPLE_SIZE

\* mutant: reads every byte the FIFO reports
BytesToRead_All(fifo_count) == fifo_count

\* num_samples * FIFO_SAMPLE_SIZE, the complete samples of fifo_count bytes
BytesToRead(fifo_count) ==
    LET num_samples == fifo_count \div FIFO_SAMPLE_SIZE IN
    num_samples * FIFO_SAMPLE_SIZE

\* read_fifo_batch after its fifo_enabled check
ReadEnabledFifo(c) ==
    Try(check_fifo_overflow(c), LAMBDA ov :
    IF ov.val
    THEN Try(read_fifo_count_raw(ov.c), LAMBDA count :
         Try(reset_fifo(count.c), LAMBDA rst :
         Err(rst.c, "FifoOverflow", SamplesLost(count.val))))
    ELSE
    Try(read_fifo_count_raw(ov.c), LAMBDA fifo_count :
    IF fifo_count.val = 0 THEN Ok(fifo_count.c, <<>>) ELSE
    IF BytesToRead(fifo_count.val) = 0 THEN Ok(fifo_count.c, <<>>) ELSE
    Try(read_fifo_raw(fifo_count.c, BytesToRead(fifo_count.val)), LAMBDA fifo_data :
    Let(parse_fifo_data(fifo_data.val), LAMBDA parsed :
    [c |-> fifo_data.c, err |-> parsed.err, val |-> parsed.val]))))

\* mutant: the fifo_enabled check is missing
read_fifo_batch_unchecked(c) == ReadEnabledFifo(c)

read_fifo_batch(c) ==
    IF ~c.fifo_enabled THEN Err(c, "FifoNotEnabled", 0) ELSE ReadEnabledFifo(c)

(***************************************************************************)
(* Construction and teardown.  chan follows the channel handle: how often  *)
(* the library opened and closed it.  lib is what the library answers to   *)
(* I2C_GetNumChannels, I2C_OpenChannel and I2C_InitChannel.                *)
(***************************************************************************)
NoChan == [state |-> "none", opens |-> 0, closes |-> 0]
I2C_OpenChannel(ch) == [ch EXCEPT !.state = "open", !.opens = @ + 1]
I2C_CloseChannel(ch) == [ch EXCEPT !.state = "closed", !.closes = @ + 1]

\* mutant: the ranges are set before the identity is verified
init_ranges_first(c) ==
    Try(write_register(c, REG_PWR_MGMT_1, 0), LAMBDA w1 :
    Let(sleep_ms(w1.c, 100), LAMBDA awake :
    Try(write_register(awake, REG_ACCEL_CONFIG, 0), LAMBDA w2 :
    Try(write_register(w2.c, REG_GYRO_CONFIG, 0), LAMBDA w3 :
    Try(read_register(w3.c, REG_WHO_AM_I), LAMBDA who_am_i :
    IF who_am_i.val # WHO_AM_I_VALUE
    THEN Err(who_am_i.c, "InvalidDeviceId", who_am_i.val) ELSE
    Ok(who_am_i.c, 0))))))

init(c) ==
    Try(write_register(c, REG_PWR_MGMT_1, 0), LAMBDA w1 :
    Let(sleep_ms(w1.c, 100), LAMBDA awake :
    Try(read_register(awake, REG_WHO_AM_I), LAMBDA who_am_i :
    IF who_am_i.val # WHO_AM_I_VALUE
    THEN Err(who_am_i.c, "InvalidDeviceId", who_am_i.val) ELSE
    Try(write_register(who_am_i.c, REG_ACCEL_CONFIG, 0), LAMBDA w2 :
    Try(write_register(w2.c, REG_GYRO_CONFIG, 0), LAMBDA w3 :
    Ok(w3.c, 0))))))

\* mutant: the teardown closes the channel without disabling the FIFO
drop_close_only(c, ch) ==
    [c |-> c, chan |-> I2C_CloseChannel(ch), discarded |-> "Ok"]

\* mutant: a failing disable_fifo leaves the channel open
drop_stops_on_error(c, ch) ==
    Let(disable_fifo(c), LAMBDA r :
    [c |-> r.c, chan |-> IF Failed(r) THEN ch ELSE I2C_CloseChannel(ch),
     discarded |-> r.err])

\* Drop for Mpu6050: let _ = disable_fifo(); I2C_CloseChannel(handle)
drop(c, ch) ==
    Let(disable_fifo(c), LAMBDA r :
    [c |-> r.c, chan |-> I2C_CloseChannel(ch), discarded |-> r.err])

\* mutant: the index is compared with the count before the count with zero
new_index_first(channel_index, lib, c, ch) ==
    IF lib.num_status # FT_OK
    THEN [c |-> c, err |-> "FtdiError", val |-> lib.num_status, chan |-> ch]
    ELSE IF channel_index >= lib.num_channels
    THEN [c |-> c, err |-> "InvalidChannel", val |-> channel_index, chan |-> ch]
    ELSE IF lib.num_channels = 0
    THEN [c |-> c, err |-> "NoChannelsFound", val |-> 0, chan |-> ch]
    ELSE IF lib.open_status # FT_OK
    THEN [c |-> c, err |-> "FtdiError", val |-> lib.open_status, chan |-> ch]
    ELSE IF lib.init_status # FT_OK
    THEN [c |-> c, err |-> "FtdiError", val |-> lib.init_status,
          chan |-> I2C_CloseChannel(I2C_OpenChannel(ch))]
    ELSE Let(init([c EXCEPT !.fifo_enabled = FALSE]), LAMBDA r :
         IF Failed(r)
         THEN Let(drop(r.c, I2C_OpenChannel(ch)), LAMBDA dropped :
              [c |-> dropped.c, err |-> r.err, val |-> r.val, chan |-> dropped.chan])
         ELSE [c |-> r.c, err |-> "Ok", val |-> 0, chan |-> I2C_OpenChannel(ch)])

\* returns [c, err, val, chan]; sensor.init()? drops the sensor it built
new(channel_index, lib, c, ch) ==
    IF lib.num_status # FT_OK
    THEN [c |-> c, err |-> "FtdiError", val |-> lib.num_status, chan |-> ch]
    ELSE IF lib.num_channels = 0
    THEN [c |-> c, err |-> "NoChannelsFound", val |-> 0, chan |-> ch]
    ELSE IF channel_index >= lib.num_channels
    THEN [c |-> c, err |-> "InvalidChannel", val |-> channel_index, chan |-> ch]
    ELSE IF lib.open_status # FT_OK
    THEN [c |-> c, err |-> "FtdiError", val |-> lib.open_status, chan |-> ch]
    ELSE IF lib.init_status # FT_OK
    THEN [c |-> c, err |-> "FtdiError", val |-> lib.init_status,
          chan |-> I2C_CloseChannel(I2C_OpenChannel(ch))]
    ELSE Let(init([c EXCEPT !.fifo_enabled = FALSE]), LAMBDA r :
         IF Failed(r)
         THEN Let(drop(r.c, I2C_OpenChannel(ch)), LAMBDA dropped :
              [c |-> dropped.c, err |-> r.err, val |-> r.val, chan |-> dropped.chan])
         ELSE [c |-> r.c, err |-> "Ok", val |-> 0, chan |-> I2C_OpenChannel(ch)])

(***************************************************************************)
(* The controller's operations as actions: each is one whole call on the   *)
(* constructed driver, under any plan of bus misbehaviour.                 *)
(***************************************************************************)
Rates == {0, 3, 4, 1000, 1001}

\* no application code is running: the driver is used directly
IdleApp == [mode |-> "none"]

IdleLoop ==
    [api |-> "none", kind |-> "none", cb |-> "none", status |-> "idle", arg |-> 0, rate |-> 0, interval |-> 0,
     now |-> 0, next_time |-> 0, count |-> 0, iters |-> 0, ticks |-> 0, calls |-> 0,
     batch |-> <<>>, cb_batch |-> <<>>, read_sum |-> 0, cb_sum |-> 0,
     samples |-> <<>>, delivered |-> <<>>, decision |-> "none", after_stop |-> 0,
     lag_start |-> 0, dur |-> 0, slept |-> FALSE, late |-> FALSE,
     tx |-> "connected", after_drop |-> 0, ahead |-> 0,
     pre |-> [fifo_enabled |-> FALSE, count |-> 0, overflow |-> FALSE, user_ctrl |-> 0]]

\* what the operation started from, kept with its result
Pre == [fifo_enabled |-> fifo_enabled, count |-> Len(dev.fifo), overflow |-> dev.overflow,
        user_ctrl |-> dev.regs[REG_USER_CTRL]]

Apply(op, arg, x) ==
    \E r \in {x} :
    /\ fifo_enabled' = r.c.fifo_enabled
    /\ dev' = r.c.dev
    /\ bus' = r.c.bus
    /\ result' = [op |-> op, arg |-> arg, err |-> r.err, val |-> r.val, pre |-> Pre]
    /\ UNCHANGED <<chan, loop, stop_signal, buffer, app>>

InitDev ==
    [regs |-> [a \in WritableRegs |-> 0], fifo |-> <<>>,
     overflow |-> FALSE, phase |-> 0, who |-> WHO_AM_I_VALUE]

Init ==
    /\ fifo_enabled = FALSE
    /\ dev = InitDev
    /\ bus = <<>>
    /\ result = [op |-> "new", arg |-> 0, err |-> "Ok", val |-> 0, pre |-> Pre]
    /\ chan = [state |-> "open", opens |-> 1, closes |-> 0]
    /\ loop = IdleLoop
    /\ stop_signal = FALSE
    /\ buffer = <<>>
    /\ app = IdleApp

EnableFifo ==
    \E rate \in Rates, plan \in Plans :
        Apply("enable_fifo", rate, enable_fifo(Ctx(plan), rate))

DisableFifo ==
    \E plan \in Plans : Apply("disable_fifo", 0, disable_fifo(Ctx(plan)))

GetFifoCount ==
    \E plan \in Plans : Apply("get_fifo_count", 0, get_fifo_count(Ctx(plan)))

ResetFifo ==
    \E plan \in Plans : Apply("reset_fifo", 0, reset_fifo(Ctx(plan)))

ReadFifoBatch ==
    \E plan \in Plans : Apply("read_fifo_batch", 0, read_fifo_batch(Ctx(plan)))

ReadAll ==
    \E plan \in Plans : Apply("read_all", 0, read_all(Ctx(plan)))

\* the sensor stores one more sample, or the accelerometer or gyroscope half
\* of one (a count read between the two sees a partial sample)
SensorAppend ==
    \E k \in {FIFO_SAMPLE_SIZE \div 2, FIFO_SAMPLE_SIZE} :
        /\ DevFifoRunning(dev)
        /\ dev' = DevAppend(dev, k)
        /\ bus' = <<>>
        /\ result' = [op |-> "sensor", arg |-> k, err |-> "Ok", val |-> 0, pre |-> Pre]
        /\ UNCHANGED <<fifo_enabled, chan, loop, stop_signal, buffer, app>>

Next ==
    \/ EnableFifo
    \/ DisableFifo
    \/ GetFifoCount
    \/ ResetFifo
    \/ ReadFifoBatch
    \/ ReadAll
    \/ SensorAppend

Spec == Init /\ [][Next]_vars

(***************************************************************************)
(* The pacing loops, stream and stream_fifo, one iteration per step.  An   *)
(* iteration takes as inputs the plan of the bus for its read, what the    *)
(* caller's callback answers, the time the read and the callback take, and *)
(* what the sensor stored since the previous iteration.                    *)
(***************************************************************************)
MaxTicks == 3           \* iterations of one loop that are explored

FifoIntervals == {9, 10, 1000, 1001}    \* batch_interval_ms tried by callers
StreamRates == {0, 1, 1000, 1001}       \* rate_hz tried by callers of stream
WrapperRates == {0, 1000}               \* rate_hz tried through stream_for, collect_samples
ForDurations == {0, 1500}               \* duration of stream_for, in microseconds
LiveCallbacks == {"run_fifo_mode", "run_polling_mode"}

\* an iteration's read and callback take no time, half an interval, or overrun
\* the deadline by several intervals
Durations(interval) == {0, interval \div 2, 3 * interval}

\* the durations tried for an iteration of lp: all of them where the caller's
\* closure or the clock decides, none for the closures that only store or send
TickDurations(lp) ==
    IF lp.cb \in {"user", "stream_for"} THEN Durations(lp.interval) ELSE {0}

\* bytes the sensor measures between two iterations; the last overflows the FIFO
Stored == {0, FIFO_SAMPLE_SIZE \div 2, FIFO_SAMPLE_SIZE, 2 * FIFO_SAMPLE_SIZE,
           3 * FIFO_SAMPLE_SIZE}

\* the sensor goes on measuring, into the FIFO when it is running
DevAdvance(d, k) ==
    IF DevFifoRunning(d) THEN DevAppend(d, k)
    ELSE [d EXCEPT !.phase = (@ + k) % StreamPeriod]

\* closures that keep the readings they are given
Collectors == {"collect_samples_fifo", "collect_samples"}

\* mutant: the deadline itself does not count as reached
DeadlineReached_Strict(now, end_time) == now > end_time

\* Instant::now() >= end_time
DeadlineReached(now, end_time) == now >= end_time

\* mutant: the closure does not look at what tx.send answers
SendFails_Ignored(lp) == FALSE

\* tx.send(..).is_err(): the receiver was dropped
SendFails(lp) == lp.tx = "disconnected"

\* what the callback may answer, given the number of readings handed over so
\* far and the time at its end: anything for a caller's own closure; live.rs's
\* closures break when they see the stop flag or when tx.send fails; the
\* collectors break once they hold num_samples readings; stream_for's breaks
\* once end_time (start + duration) is reached
Callback(lp, samples, now) ==
    IF lp.cb \in LiveCallbacks
    THEN {IF stop_signal \/ SendFails(lp) THEN "Break" ELSE "Continue"}
    ELSE IF lp.cb \in Collectors
    THEN {IF samples >= lp.arg THEN "Break" ELSE "Continue"}
    ELSE IF lp.cb = "stream_for"
    THEN {IF DeadlineReached(now, lp.arg) THEN "Break" ELSE "Continue"}
    ELSE {"Continue", "Break"}

\* mutant: the loop ends whatever the callback answers
Stops_Always(decision) == TRUE

\* callback(..) == StreamControl::Break
Stops(decision) == decision = "Break"

\* mutant: the total counts batches
Accumulate_Batches(total, batch) == total + 1

\* total_samples += batch.len()
Accumulate(total, batch) == total + Len(batch)

\* mutant: a failed read is tried once more
FifoRead_Retry(c) ==
    Let(read_fifo_batch(c), LAMBDA r : IF Failed(r) THEN read_fifo_batch(r.c) ELSE r)

\* self.read_fifo_batch()? of stream_fifo
FifoRead(c) == read_fifo_batch(c)

\* the readings the loop's reads returned so far, in order (followed for the
\* collectors only)
Delivered(lp, batch) == IF lp.cb \in Collectors THEN lp.delivered \o batch ELSE lp.delivered

\* mutant: the newest readings are put in front
Kept_Front(lp, batch) == IF lp.cb \in Collectors THEN batch \o lp.samples ELSE lp.samples

\* what the closure adds to its accumulator
Kept(lp, batch) == IF lp.cb \in Collectors THEN lp.samples \o batch ELSE lp.samples

BatchOf(r) == IF Failed(r) THEN <<>> ELSE r.val

\* mutant: the next deadline is one interval after the end of the iteration
Pace_Drift(lp, now) ==
    [lp EXCEPT !.next_time = now + lp.interval,
               !.now = now + lp.interval,
               !.ahead = lp.interval,
               !.slept = TRUE]

\* mutant: a late loop re-bases its deadline on the clock
Pace_Rebase(lp, now) ==
    LET next == lp.next_time + lp.interval IN
    [lp EXCEPT !.next_time = IF next > now THEN next ELSE now,
               !.now = IF next > now THEN next ELSE now,
               !.ahead = IF next > now THEN next - now ELSE 0,
               !.slept = next > now]

\* mutant: the deadline advances by two intervals
Pace_Double(lp, now) ==
    LET next == lp.next_time + 2 * lp.interval IN
    [lp EXCEPT !.next_time = next,
               !.now = IF next > now THEN next ELSE now,
               !.ahead = next - now,
               !.slept = next > now]

\* next_time += interval; sleep until it if it is still ahead of now; ahead is
\* how far the new deadline lies from now (the length of the sleep if positive)
Pace(lp, now) ==
    LET next == lp.next_time + lp.interval IN
    [lp EXCEPT !.next_time = next,
               !.now = IF next > now THEN next ELSE now,
               !.ahead = next - now,
               !.slept = next > now]

Started(api, kind, cb, rate, arg, interval) ==
    [IdleLoop EXCEPT !.api = api, !.kind = kind, !.cb = cb, !.status = "running",
                     !.rate = rate, !.arg = arg, !.interval = interval, !.pre = Pre]

Return(lp, err, val) ==
    /\ loop' = [lp EXCEPT !.status = "returned"]
    /\ result' = [op |-> lp.api, arg |-> lp.arg, err |-> err, val |-> val, pre |-> lp.pre]

\* mutant: the accumulator is returned as it is
Returned_Untruncated(lp) ==
    IF lp.api \in Collectors THEN lp.samples ELSE lp.count

\* the count of stream and stream_fifo; collect_samples returns its
\* accumulator, collect_samples_fifo truncates it to num_samples first
Returned(lp) ==
    IF lp.api = "collect_samples_fifo"
    THEN SubSeq(lp.samples, 1, Min(lp.arg, Len(lp.samples)))
    ELSE IF lp.api = "collect_samples" THEN lp.samples
    ELSE lp.count

\* mutant: the limits themselves are rejected
IntervalOk_Exclusive(batch_interval_ms) ==
    ~(batch_interval_ms <= 10 \/ batch_interval_ms >= 1000)

IntervalOk(batch_interval_ms) == ~(batch_interval_ms < 10 \/ batch_interval_ms > 1000)

\* mutant: the upper limit itself is rejected
StreamRateOk_Exclusive(rate_hz) == ~(rate_hz = 0 \/ rate_hz >= 1000)

StreamRateOk(rate_hz) == ~(rate_hz = 0 \/ rate_hz > 1000)

\* stream_fifo up to its loop
StreamFifoCall(batch_interval_ms, cb) ==
    /\ loop.kind = "none"
    /\ bus' = <<>>
    /\ IF ~fifo_enabled
       THEN Return(Started("stream_fifo", "stream_fifo", cb, 0, batch_interval_ms, 0),
                   "FifoNotEnabled", 0)
       ELSE IF ~IntervalOk(batch_interval_ms)
       THEN Return(Started("stream_fifo", "stream_fifo", cb, 0, batch_interval_ms, 0),
                   "InvalidParameter", batch_interval_ms)
       ELSE /\ loop' = Started("stream_fifo", "stream_fifo", cb, 0, batch_interval_ms,
                               batch_interval_ms)
            /\ UNCHANGED result
    /\ UNCHANGED <<fifo_enabled, dev, chan, stop_signal, buffer, app>>

StreamFifo == \E ms \in FifoIntervals : StreamFifoCall(ms, "user")

\* run_fifo_mode, entered after enable_fifo(1000): sensor.stream_fifo(20, closure)
RunFifoMode == fifo_enabled /\ StreamFifoCall(20, "run_fifo_mode")

CollectRates == {3, 4, 1000}    \* sample_rate_hz tried by callers
CollectSizes == {0, 1, 3}       \* num_samples tried by callers

\* collect_samples_fifo up to stream_fifo's loop: enable_fifo unless enabled,
\* reset_fifo, then stream_fifo(50, closure)
CollectSamplesFifo ==
    /\ loop.kind = "none"
    /\ \E sample_rate_hz \in CollectRates, num_samples \in CollectSizes, plan \in Plans :
       \E r \in {Try(IF ~fifo_enabled THEN enable_fifo(Ctx(plan), sample_rate_hz)
                                      ELSE Ok(Ctx(plan), 0),
                     LAMBDA en : reset_fifo(en.c))} :
       LET lp == Started("collect_samples_fifo", "stream_fifo", "collect_samples_fifo",
                         sample_rate_hz, num_samples, 50)
       IN
       /\ fifo_enabled' = r.c.fifo_enabled
       /\ dev' = r.c.dev
       /\ bus' = r.c.bus
       /\ IF Failed(r) THEN Return(lp, r.err, r.val)
          ELSE loop' = lp /\ UNCHANGED result
    /\ UNCHANGED <<chan, stop_signal, buffer, app>>

\* one iteration of stream_fifo's loop
StreamFifoTick ==
    /\ loop.kind = "stream_fifo" /\ loop.status = "running" /\ loop.iters < MaxTicks
    /\ \E plan \in Plans, dur \in TickDurations(loop), k \in Stored :
       \E r \in {FifoRead(CtxOn(DevAdvance(dev, k), plan))} :
       \E decision \in Callback(loop, loop.count + Len(BatchOf(r)), loop.now + dur) :
       LET lp0 == [loop EXCEPT !.iters = @ + 1,
                               !.after_stop = IF stop_signal THEN @ + 1 ELSE @,
                               !.decision = decision,
                               !.lag_start = loop.now - loop.next_time,
                               !.dur = dur,
                               !.late = @ \/ dur >= loop.interval,
                               !.now = loop.now + dur]
           batch == r.val
       IN
       /\ fifo_enabled' = r.c.fifo_enabled
       /\ dev' = r.c.dev
       /\ bus' = r.c.bus
       /\ IF Failed(r) THEN Return(lp0, r.err, r.val)
          ELSE IF batch # <<>>
          THEN LET lp1 == [lp0 EXCEPT !.ticks = @ + 1, !.batch = batch,
                                      !.read_sum = @ + Len(batch),
                                      !.delivered = Delivered(loop, batch),
                                      !.count = Accumulate(@, batch),
                                      !.calls = @ + 1, !.cb_batch = batch,
                                      !.after_drop = IF loop.tx = "disconnected" THEN @ + 1 ELSE @,
                                      !.cb_sum = @ + Len(batch),
                                      !.samples = Kept(loop, batch)]
               IN IF Stops(decision)
                  THEN Return(lp1, "Ok", Returned(lp1))
                  ELSE loop' = Pace(lp1, lp1.now) /\ UNCHANGED result
          ELSE LET lp1 == [lp0 EXCEPT !.ticks = @ + 1, !.batch = batch,
                                      !.read_sum = @ + Len(batch),
                                      !.delivered = Delivered(loop, batch)]
               IN loop' = Pace(lp1, lp1.now) /\ UNCHANGED result
       /\ UNCHANGED <<chan, stop_signal, buffer, app>>

\* stream up to its loop, called by api with the closure cb; arg is rate_hz for
\* stream itself, else what the closure compares with (num_samples, duration)
StreamCall(api, rate_hz, cb, arg) ==
    /\ loop.kind = "none"
    /\ bus' = <<>>
    /\ IF ~StreamRateOk(rate_hz)
       THEN Return(Started(api, "stream", cb, rate_hz, arg, 0), "InvalidParameter", rate_hz)
       ELSE /\ loop' = Started(api, "stream", cb, rate_hz, arg, 1000000 \div rate_hz)
            /\ UNCHANGED result
    /\ UNCHANGED <<fifo_enabled, dev, chan, stop_signal, buffer, app>>

Stream == \E rate_hz \in StreamRates : StreamCall("stream", rate_hz, "user", rate_hz)

\* stream_for: end_time = now + duration, then stream(rate_hz, closure)
StreamFor ==
    \E rate_hz \in WrapperRates, duration \in ForDurations :
        StreamCall("stream_for", rate_hz, "stream_for", duration)

\* collect_samples: stream(rate_hz, closure)
CollectSamples ==
    \E rate_hz \in WrapperRates, num_samples \in CollectSizes :
        StreamCall("collect_samples", rate_hz, "collect_samples", num_samples)

\* run_polling_mode, the fallback when enable_fifo failed: sensor.stream(100, closure)
RunPollingMode == ~fifo_enabled /\ StreamCall("stream", 100, "run_polling_mode", 100)

\* one iteration of stream's loop
StreamTick ==
    /\ loop.kind = "stream" /\ loop.status = "running" /\ loop.iters < MaxTicks
    /\ \E plan \in Plans, dur \in TickDurations(loop), k \in Stored :
       \E r \in {read_all(CtxOn(DevAdvance(dev, k), plan))} :
       \E decision \in Callback(loop, loop.count + 1, loop.now + dur) :
       LET lp0 == [loop EXCEPT !.iters = @ + 1,
                               !.after_stop = IF stop_signal THEN @ + 1 ELSE @,
                               !.decision = decision,
                               !.lag_start = loop.now - loop.next_time,
                               !.dur = dur,
                               !.late = @ \/ dur >= loop.interval,
                               !.now = loop.now + dur]
       IN
       /\ fifo_enabled' = r.c.fifo_enabled
       /\ dev' = r.c.dev
       /\ bus' = r.c.bus
       /\ IF Failed(r) THEN Return(lp0, r.err, r.val)
          ELSE LET lp1 == [lp0 EXCEPT !.ticks = @ + 1, !.batch = <<r.val>>,
                                      !.read_sum = @ + 1,
                                      !.delivered = Delivered(loop, <<r.val>>),
                                      !.count = @ + 1,
                                      !.calls = @ + 1, !.cb_batch = <<r.val>>,
                                      !.after_drop = IF loop.tx = "disconnected" THEN @ + 1 ELSE @,
                                      !.cb_sum = @ + 1,
                                      !.samples = Kept(loop, <<r.val>>)]
               IN IF Stops(decision)
                  THEN Return(lp1, "Ok", Returned(lp1))
                  ELSE loop' = Pace(lp1, lp1.now) /\ UNCHANGED result
       /\ UNCHANGED <<chan, stop_signal, buffer, app>>

\* SensorHandle::stop, from the GUI thread, while the worker streams
Stop ==
    /\ loop.cb \in LiveCallbacks /\ loop.status = "running"
    /\ ~stop_signal
    /\ stop_signal' = TRUE
    /\ UNCHANGED <<fifo_enabled, dev, bus, result, chan, loop, buffer, app>>

\* the GUI drops the receiving end of the sample channel while the worker streams
DropReceiver ==
    /\ loop.cb \in LiveCallbacks /\ loop.status = "running"
    /\ loop.tx = "connected"
    /\ loop' = [loop EXCEPT !.tx = "disconnected"]
    /\ UNCHANGED <<fifo_enabled, dev, bus, result, chan, stop_signal, buffer, app>>

\* at the worker's exit the bus works, or fails at the first write
ExitPlans == {NoFault, [fault |-> 1, short |-> 0]}

\* the worker after its loop returned: run_fifo_mode disables the FIFO, then
\* the sensor goes out of scope
WorkerExit ==
    /\ loop.cb \in LiveCallbacks /\ loop.status = "returned"
    /\ \E plan \in ExitPlans :
       \E r \in {drop(IF loop.cb = "run_fifo_mode" THEN disable_fifo(Ctx(plan)).c
                                                  ELSE Ctx(plan), chan)} :
       /\ fifo_enabled' = r.c.fifo_enabled
       /\ dev' = r.c.dev
       /\ bus' = r.c.bus
       /\ chan' = r.chan
       /\ loop' = [loop EXCEPT !.status = "exited"]
    /\ UNCHANGED <<result, stop_signal, buffer, app>>

\* read_fifo_batch called directly, outside any loop
ReadFifoBatchIdle == loop.kind = "none" /\ ReadFifoBatch

\* the callers of one driver method instead of a loop
DirectOps == {"get_fifo_count", "reset_fifo", "read_all"}

\* get_fifo_count, reset_fifo or read_all called directly on the driver, as
\* the only call made on it
DirectCall ==
    /\ loop.kind = "none"
    /\ \E op \in DirectOps, plan \in Plans :
       \E r \in {IF op = "get_fifo_count" THEN get_fifo_count(Ctx(plan))
                 ELSE IF op = "reset_fifo" THEN reset_fifo(Ctx(plan))
                 ELSE read_all(Ctx(plan))} :
       /\ fifo_enabled' = r.c.fifo_enabled
       /\ dev' = r.c.dev
       /\ bus' = r.c.bus
       /\ result' = [op |-> op, arg |-> 0, err |-> r.err, val |-> r.val, pre |-> Pre]
       /\ loop' = [IdleLoop EXCEPT !.api = op, !.kind = "direct", !.status = "returned",
                                   !.pre = Pre]
    /\ UNCHANGED <<chan, stop_signal, buffer, app>>

\* the driver after new(), or after new() and a successful enable_fifo(1000)
InitStream ==
    /\ \E en \in BOOLEAN :
         /\ fifo_enabled = en
         /\ dev = IF en
                  THEN enable_fifo([fifo_enabled |-> FALSE, dev |-> InitDev, ptr |-> 0,
                                    bus |-> <<>>, plan |-> NoFault], 1000).c.dev
                  ELSE InitDev
    /\ bus = <<>>
    /\ result = [op |-> "new", arg |-> 0, err |-> "Ok", val |-> 0, pre |-> Pre]
    /\ chan = [state |-> "open", opens |-> 1, closes |-> 0]
    /\ loop = IdleLoop
    /\ stop_signal = FALSE
    /\ buffer = <<>>
    /\ app = IdleApp

NextStream ==
    \/ StreamFifo
    \/ RunFifoMode
    \/ CollectSamplesFifo
    \/ StreamFifoTick
    \/ Stream
    \/ StreamFor
    \/ CollectSamples
    \/ RunPollingMode
    \/ StreamTick
    \/ Stop
    \/ DropReceiver
    \/ WorkerExit
    \/ ReadFifoBatchIdle
    \/ DirectCall

SpecStream == InitStream /\ [][NextStream]_vars

(***************************************************************************)
(* stream_for on its own, with the thread that runs the loop going on: an  *)
(* iteration that can be run is run.                                       *)
(***************************************************************************)
NextFor ==
    \/ StreamFor
    \/ StreamTick

SpecStreamFor == InitStream /\ [][NextFor]_vars /\ WF_vars(StreamTick)

(***************************************************************************)
(* The life of one driver: new, some controller calls, drop.               *)
(***************************************************************************)
Statuses == {FT_OK, FT_IO_ERROR}
Libs == [num_status : Statuses, num_channels : 0..2,
         open_status : Statuses, init_status : Statuses]

\* the sensor at power-on: asleep; who is what it answers to WHO_AM_I
PowerOnDev(who) == [InitDev EXCEPT !.regs[REG_PWR_MGMT_1] = 64, !.who = who]

InitLife ==
    /\ fifo_enabled = FALSE
    /\ \E who \in {WHO_AM_I_VALUE, 0} : dev = PowerOnDev(who)
    /\ bus = <<>>
    /\ result = [op |-> "none", arg |-> 0, err |-> "Ok", val |-> 0, pre |-> Pre]
    /\ chan = NoChan
    /\ loop = IdleLoop
    /\ stop_signal = FALSE
    /\ buffer = <<>>
    /\ app = IdleApp

New ==
    /\ chan.state = "none" /\ result.op = "none"
    /\ \E channel_index \in 0..1, lib \in Libs, plan \in Plans :
       \E r \in {new(channel_index, lib, Ctx(plan), chan)} :
       /\ fifo_enabled' = r.c.fifo_enabled
       /\ dev' = r.c.dev
       /\ bus' = r.c.bus
       /\ chan' = r.chan
       /\ result' = [op |-> "new", arg |-> channel_index, err |-> r.err,
                     val |-> r.val, pre |-> Pre, lib |-> lib]
    /\ UNCHANGED <<loop, stop_signal, buffer, app>>

\* the sensor goes out of scope
DropSensor ==
    /\ chan.state = "open"
    /\ \E plan \in Plans :
       \E r \in {drop(Ctx(plan), chan)} :
       /\ fifo_enabled' = r.c.fifo_enabled
       /\ dev' = r.c.dev
       /\ bus' = r.c.bus
       /\ chan' = r.chan
       /\ result' = [op |-> "drop", arg |-> 0, err |-> "Ok",
                     val |-> r.discarded, pre |-> Pre]
    /\ UNCHANGED <<loop, stop_signal, buffer, app>>

NextLife ==
    \/ New
    \/ chan.state = "open" /\ EnableFifo
    \/ chan.state = "open" /\ DisableFifo
    \/ DropSensor

SpecLife == InitLife /\ [][NextLife]_vars

(***************************************************************************)
(* The decoder on its own: parse_fifo_data applied to a buffer of any      *)
(* length up to MaxBufLen, made of the measurement stream's bytes with one *)
(* byte replaced by an edge value.                                         *)
(***************************************************************************)
MaxBufLen == 25         \* longest buffer handed to the decoder

EdgeBytes == {0, 1, 127, 128, 255}

Buffers ==
    {[i \in 1..n |-> IF i = p THEN v ELSE StreamByte(i)] :
        n \in 0..MaxBufLen, p \in 0..MaxBufLen, v \in EdgeBytes}

InitDecode ==
    /\ fifo_enabled = FALSE
    /\ dev = InitDev
    /\ bus = <<>>
    /\ result = [op |-> "none", arg |-> 0, err |-> "Ok", val |-> 0, pre |-> Pre]
    /\ chan = NoChan
    /\ loop = IdleLoop
    /\ stop_signal = FALSE
    /\ buffer \in Buffers
    /\ app = IdleApp

ParseFifoData ==
    /\ result.op = "none"
    /\ \E r \in {parse_fifo_data(buffer)} :
          result' = [op |-> "parse_fifo_data", arg |-> Len(buffer), err |-> r.err,
                     val |-> r.val, pre |-> Pre]
    /\ UNCHANGED <<fifo_enabled, dev, bus, chan, loop, stop_signal, buffer, app>>

SpecDecode == InitDecode /\ [][ParseFifoData]_vars

(***************************************************************************)
(* The collector's polling mode (src/bin/collector.rs): collect_polling    *)
(* runs stream with a closure that buffers the readings and appends them   *)
(* to the file writer a batch at a time.  A reading is identified by its   *)
(* number in the stream.                                                   *)
(***************************************************************************)
MaxPolls == 102         \* iterations of the collector's stream that are explored

WRITE_BATCH == 100
CollectorRates == {0, 100}      \* args.rate

\* what the file writer answers to the calls of one iteration
WriterPlans == [append_fails : BOOLEAN, final_fails : BOOLEAN, flush_fails : BOOLEAN]

\* the locals of collect_polling at its start, with what the writer holds
NewCollect ==
    [mode |-> "collect_polling", status |-> "running", running |-> TRUE, expired |-> FALSE,
     sample_buffer |-> <<>>, written |-> <<>>, continued |-> {}, err |-> "none"]

\* collect_polling after stream returned Ok: append what is buffered, flush
FinishCollect(a, w) ==
    IF a.sample_buffer # <<>> /\ w.final_fails
    THEN [a EXCEPT !.status = "returned", !.err = "WriteError"]
    ELSE LET b == [a EXCEPT !.written = @ \o a.sample_buffer] IN
         [b EXCEPT !.status = "returned", !.err = IF w.flush_fails THEN "FlushError" ELSE "Ok"]

\* collect_polling up to the loop of stream
CollectPolling ==
    /\ app.mode = "none" /\ loop.kind = "none"
    /\ bus' = <<>>
    /\ \E rate \in CollectorRates :
       IF ~StreamRateOk(rate)
       THEN /\ Return(Started("stream", "stream", "collect_polling", rate, rate, 0),
                      "InvalidParameter", rate)
            /\ app' = [NewCollect EXCEPT !.status = "returned", !.err = "InvalidParameter"]
       ELSE /\ loop' = Started("stream", "stream", "collect_polling", rate, rate,
                               1000000 \div rate)
            /\ app' = NewCollect
            /\ UNCHANGED result
    /\ UNCHANGED <<fifo_enabled, dev, chan, stop_signal, buffer>>

\* the Ctrl+C handler clears the running flag
CtrlC ==
    /\ app.mode = "collect_polling" /\ app.status = "running" /\ app.running
    /\ app' = [app EXCEPT !.running = FALSE]
    /\ UNCHANGED <<fifo_enabled, dev, bus, result, chan, loop, stop_signal, buffer>>

\* the clock reaches end_time
Expire ==
    /\ app.mode = "collect_polling" /\ app.status = "running" /\ ~app.expired
    /\ app' = [app EXCEPT !.expired = TRUE]
    /\ UNCHANGED <<fifo_enabled, dev, bus, result, chan, loop, stop_signal, buffer>>

\* the closure of collect_polling on reading n: [decision, app]
PollingCallback(a, n, w) ==
    IF ~a.running \/ a.expired THEN [decision |-> "Break", app |-> a] ELSE
    LET pushed == Append(a.sample_buffer, n) IN
    IF Len(pushed) >= WRITE_BATCH
    THEN IF w.append_fails
         THEN [decision |-> "Break", app |-> [a EXCEPT !.sample_buffer = pushed]]
         ELSE [decision |-> "Continue",
               app |-> [a EXCEPT !.sample_buffer = <<>>, !.written = @ \o pushed,
                                 !.continued = @ \cup {n}]]
    ELSE [decision |-> "Continue",
          app |-> [a EXCEPT !.sample_buffer = pushed, !.continued = @ \cup {n}]]

\* one iteration of stream's loop under collect_polling; when the loop ends
\* collect_polling returns: at once with stream's error, else after the
\* final append and flush
CollectPollingTick ==
    /\ app.mode = "collect_polling" /\ app.status = "running"
    /\ loop.status = "running" /\ loop.iters < MaxPolls
    /\ \E plan \in Plans, w \in WriterPlans :
       \E r \in {read_all(Ctx(plan))} :
       \E cb \in {PollingCallback(app, loop.count + 1, w)} :
       LET lp0 == [loop EXCEPT !.iters = @ + 1] IN
       /\ fifo_enabled' = r.c.fifo_enabled
       /\ dev' = r.c.dev
       /\ bus' = r.c.bus
       /\ IF Failed(r)
          THEN /\ Return(lp0, r.err, r.val)
               /\ app' = [app EXCEPT !.status = "returned", !.err = r.err]
          ELSE LET lp1 == [lp0 EXCEPT !.ticks = @ + 1, !.count = @ + 1, !.calls = @ + 1,
                                      !.decision = cb.decision]
               IN IF Stops(cb.decision)
                  THEN /\ Return(lp1, "Ok", Returned(lp1))
                       /\ app' = FinishCollect(cb.app, w)
                  ELSE /\ loop' = Pace(lp1, lp1.now)
                       /\ app' = cb.app
                       /\ UNCHANGED result
    /\ UNCHANGED <<chan, stop_signal, buffer>>

NextCollect ==
    \/ CollectPolling
    \/ CtrlC
    \/ Expire
    \/ CollectPollingTick

SpecCollect == Init /\ [][NextCollect]_vars

(***************************************************************************)
(* read_fifo_batch bus transaction by bus transaction, with the sensor     *)
(* storing samples between any two of them.  app follows the call: where   *)
(* it stands, what it has read so far, and what happened to the FIFO       *)
(* meanwhile.                                                              *)
(***************************************************************************)
IdleBatch ==
    [mode |-> "read_fifo_batch", pc |-> "idle", plan |-> NoFault,
     pending |-> FALSE, overflow |-> FALSE, high |-> 0, fifo_count |-> 0,
     held |-> 0, burst |-> 0, lost |-> FALSE, appended |-> FALSE,
     atomic |-> [err |-> "none", val |-> 0]]

\* the driver's context in the middle of a call: the log goes on
StepCtx == [fifo_enabled |-> fifo_enabled, dev |-> dev, ptr |-> 0, bus |-> bus,
            plan |-> app.plan]

\* the call returns
BatchReturn(a, err, val) ==
    /\ app' = [a EXCEPT !.pc = "done"]
    /\ result' = [op |-> "read_fifo_batch", arg |-> 0, err |-> err, val |-> val, pre |-> Pre]

\* read_fifo_batch is called: the fifo_enabled check
BatchCall ==
    /\ app.pc \in {"idle", "done"}
    /\ \E plan \in Plans :
       \E whole \in {read_fifo_batch(Ctx(plan))} :
       LET a == [IdleBatch EXCEPT !.plan = plan,
                                  !.atomic = [err |-> whole.err, val |-> whole.val]]
       IN IF ~fifo_enabled
          THEN BatchReturn(a, "FifoNotEnabled", 0)
          ELSE app' = [a EXCEPT !.pc = "status"] /\ UNCHANGED result
    /\ bus' = <<>>
    /\ UNCHANGED <<fifo_enabled, dev, chan, loop, stop_signal, buffer>>

\* check_fifo_overflow: the interrupt status is read
StatusStep ==
    /\ app.pc = "status"
    /\ \E r \in {check_fifo_overflow(StepCtx)} :
       /\ dev' = r.c.dev
       /\ bus' = r.c.bus
       /\ IF Failed(r) THEN BatchReturn(app, r.err, r.val)
          ELSE app' = [app EXCEPT !.pc = "count_high", !.overflow = r.val,
                                  !.pending = dev.overflow]
               /\ UNCHANGED result
    /\ UNCHANGED <<fifo_enabled, chan, loop, stop_signal, buffer>>

\* read_fifo_count_raw: the high byte of the count is read
CountHighStep ==
    /\ app.pc = "count_high"
    /\ \E r \in {read_register(StepCtx, REG_FIFO_COUNTH)} :
       /\ dev' = r.c.dev
       /\ bus' = r.c.bus
       /\ IF Failed(r) THEN BatchReturn(app, r.err, r.val)
          ELSE app' = [app EXCEPT !.pc = "count_low", !.high = r.val]
               /\ UNCHANGED result
    /\ UNCHANGED <<fifo_enabled, chan, loop, stop_signal, buffer>>

\* read_fifo_count_raw: the low byte is read; an empty batch is returned
CountLowStep ==
    /\ app.pc = "count_low"
    /\ \E r \in {read_register(StepCtx, REG_FIFO_COUNTL)} :
       /\ dev' = r.c.dev
       /\ bus' = r.c.bus
       /\ IF Failed(r) THEN BatchReturn(app, r.err, r.val)
          ELSE LET fifo_count == U16FromBe(app.high, r.val)
                   a == [app EXCEPT !.fifo_count = fifo_count]
               IN IF app.overflow
                  THEN app' = [a EXCEPT !.pc = "reset"] /\ UNCHANGED result
                  ELSE IF fifo_count = 0 \/ BytesToRead(fifo_count) = 0
                  THEN BatchReturn(a, "Ok", <<>>)
                  ELSE app' = [a EXCEPT !.pc = "burst"] /\ UNCHANGED result
    /\ UNCHANGED <<fifo_enabled, chan, loop, stop_signal, buffer>>

\* the overflow path: reset_fifo, then FifoOverflow{samples_lost}
ResetStep ==
    /\ app.pc = "reset"
    /\ \E r \in {reset_fifo(StepCtx)} :
       /\ dev' = r.c.dev
       /\ bus' = r.c.bus
       /\ IF Failed(r) THEN BatchReturn(app, r.err, r.val)
          ELSE BatchReturn(app, "FifoOverflow", SamplesLost(app.fifo_count))
    /\ UNCHANGED <<fifo_enabled, chan, loop, stop_signal, buffer>>

\* read_fifo_raw and parse_fifo_data: the burst read of the FIFO port
BurstStep ==
    /\ app.pc = "burst"
    /\ \E r \in {read_fifo_raw(StepCtx, BytesToRead(app.fifo_count))} :
       LET a == [app EXCEPT !.held = Len(dev.fifo), !.burst = BytesToRead(app.fifo_count)]
       IN
       /\ dev' = r.c.dev
       /\ bus' = r.c.bus
       /\ IF Failed(r) THEN BatchReturn(a, r.err, r.val)
          ELSE \E parsed \in {parse_fifo_data(r.val)} :
                   BatchReturn(a, parsed.err, parsed.val)
    /\ UNCHANGED <<fifo_enabled, chan, loop, stop_signal, buffer>>

\* the sensor stores one more sample, or half of one, whatever the driver is
\* doing; lost: the FIFO overflowed after the status read of the running call
SensorStep ==
    /\ DevFifoRunning(dev)
    /\ \E k \in {FIFO_SAMPLE_SIZE \div 2, FIFO_SAMPLE_SIZE} :
       /\ dev' = DevAppend(dev, k)
       /\ app' = [app EXCEPT
                    !.appended = @ \/ app.pc \notin {"idle", "done"},
                    !.lost = @ \/ (/\ app.pc \in {"count_high", "count_low", "burst"}
                                   /\ Len(dev.fifo) + k > FifoCapacity)]
    /\ UNCHANGED <<fifo_enabled, bus, result, chan, loop, stop_signal, buffer>>

InitBatch ==
    /\ \E en \in BOOLEAN :
         /\ fifo_enabled = en
         /\ dev = IF en
                  THEN enable_fifo([fifo_enabled |-> FALSE, dev |-> InitDev, ptr |-> 0,
                                    bus |-> <<>>, plan |-> NoFault], 1000).c.dev
                  ELSE InitDev
    /\ bus = <<>>
    /\ result = [op |-> "new", arg |-> 0, err |-> "Ok", val |-> 0, pre |-> Pre]
    /\ chan = [state |-> "open", opens |-> 1, closes |-> 0]
    /\ loop = IdleLoop
    /\ stop_signal = FALSE
    /\ buffer = <<>>
    /\ app = IdleBatch

NextBatch ==
    \/ BatchCall
    \/ StatusStep
    \/ CountHighStep
    \/ CountLowStep
    \/ ResetStep
    \/ BurstStep
    \/ SensorStep

SpecBatch == InitBatch /\ [][NextBatch]_vars

(***************************************************************************)
(* The GUI's background acquisition (src/bin/sensor_gui): connect_sensor   *)
(* builds a driver on the GUI thread, spawns the worker, which builds its  *)
(* own, and returns, dropping the first; disconnect_sensor sets the stop   *)
(* flag and joins the worker.  fifo_enabled, chan and loop are the         *)
(* worker's driver; app follows the GUI thread, the driver it built, and   *)
(* the worker thread.  The worker's operations are taken as wholes, the    *)
(* teardown of the GUI thread's driver one bus call at a time.             *)
(***************************************************************************)
\* the registers Drop's disable_fifo writes, in its order
DisableOrder == <<REG_USER_CTRL, REG_FIFO_EN, REG_SMPLRT_DIV, REG_CONFIG>>

IdleGui ==
    [mode |-> "gui", gui |-> "idle", main_chan |-> NoChan, main_drop |-> 0,
     worker |-> "none", foreign |-> 0]

TickPlans == {NoFault, [fault |-> 1, short |-> 0]}

\* connect_sensor up to thread::spawn: Mpu6050::new(0) on the GUI thread
Connect ==
    /\ app.gui = "idle"
    /\ \E lib \in Libs, plan \in Plans :
       \E r \in {new(0, lib, Ctx(plan), app.main_chan)} :
       /\ dev' = r.c.dev
       /\ bus' = r.c.bus
       /\ result' = [op |-> "new", arg |-> 0, err |-> r.err, val |-> r.val,
                     pre |-> Pre, lib |-> lib]
       /\ app' = IF Failed(r)
                 THEN [app EXCEPT !.gui = "failed", !.main_chan = r.chan]
                 ELSE [app EXCEPT !.gui = "connecting", !.main_chan = r.chan,
                                  !.worker = "spawned"]
    /\ UNCHANGED <<fifo_enabled, chan, loop, stop_signal, buffer>>

\* connect_sensor returns: sensor_init goes out of scope, and its Drop runs
\* disable_fifo; this is one register write of it (a failed one ends it)
MainDropWrite ==
    /\ app.gui = "connecting" /\ app.main_drop < Len(DisableOrder)
    /\ \E plan \in TickPlans :
       \E r \in {write_register(Ctx(plan), DisableOrder[app.main_drop + 1], 0)} :
       /\ dev' = r.c.dev
       /\ bus' = r.c.bus
       /\ app' = [app EXCEPT !.main_drop = IF Failed(r) THEN Len(DisableOrder) ELSE @ + 1,
                             !.foreign = IF app.worker # "spawned" THEN @ + 1 ELSE @]
    /\ UNCHANGED <<fifo_enabled, result, chan, loop, stop_signal, buffer>>

\* the end of that Drop: I2C_CloseChannel; connect_sensor has returned Success
MainClose ==
    /\ app.gui = "connecting" /\ app.main_drop = Len(DisableOrder)
    /\ app' = [app EXCEPT !.gui = "connected",
                          !.main_chan = I2C_CloseChannel(@),
                          !.foreign = IF app.worker # "spawned" THEN @ + 1 ELSE @]
    /\ UNCHANGED <<fifo_enabled, dev, bus, result, chan, loop, stop_signal, buffer>>

\* run_sensor_thread: Mpu6050::new(0) on the worker thread
WorkerNew ==
    /\ app.worker = "spawned"
    /\ \E lib \in Libs, plan \in Plans :
       \E r \in {new(0, lib, Ctx(plan), chan)} :
       /\ fifo_enabled' = r.c.fifo_enabled
       /\ dev' = r.c.dev
       /\ bus' = r.c.bus
       /\ chan' = r.chan
       /\ result' = [op |-> "new", arg |-> 0, err |-> r.err, val |-> r.val,
                     pre |-> Pre, lib |-> lib]
       /\ app' = [app EXCEPT !.worker = IF Failed(r) THEN "exited" ELSE "built"]
    /\ UNCHANGED <<loop, stop_signal, buffer>>

\* run_sensor_thread: enable_fifo(1000), then run_fifo_mode's stream_fifo(20)
\* or, if it failed, run_polling_mode's stream(100), up to the loop
WorkerEnable ==
    /\ app.worker = "built"
    /\ \E plan \in Plans :
       \E r \in {enable_fifo(Ctx(plan), 1000)} :
       /\ fifo_enabled' = r.c.fifo_enabled
       /\ dev' = r.c.dev
       /\ bus' = r.c.bus
       /\ result' = [op |-> "enable_fifo", arg |-> 1000, err |-> r.err, val |-> r.val,
                     pre |-> Pre]
       /\ loop' = IF Failed(r)
                  THEN Started("stream", "stream", "run_polling_mode", 100, 100,
                               1000000 \div 100)
                  ELSE Started("stream_fifo", "stream_fifo", "run_fifo_mode", 0, 20, 20)
       /\ app' = [app EXCEPT !.worker = "streaming"]
    /\ UNCHANGED <<chan, stop_signal, buffer>>

\* one iteration of the worker's loop; the sensor, if its FIFO runs, has
\* stored a sample since the last one.  The count is not followed: the
\* worker discards it.
WorkerTick ==
    /\ app.worker = "streaming" /\ loop.status = "running"
    /\ \E plan \in TickPlans :
       \E r \in {IF loop.kind = "stream_fifo"
                 THEN FifoRead(CtxOn(DevAdvance(dev, FIFO_SAMPLE_SIZE), plan))
                 ELSE Let(read_all(Ctx(plan)), LAMBDA one :
                      [c |-> one.c, err |-> one.err,
                       val |-> IF Failed(one) THEN one.val ELSE <<one.val>>])} :
       /\ fifo_enabled' = r.c.fifo_enabled
       /\ dev' = r.c.dev
       /\ bus' = r.c.bus
       /\ IF Failed(r) THEN Return(loop, r.err, r.val)
          ELSE IF r.val # <<>>
          THEN \E decision \in Callback(loop, 0, 0) :
                   IF Stops(decision) THEN Return(loop, "Ok", 0)
                   ELSE UNCHANGED <<loop, result>>
          ELSE UNCHANGED <<loop, result>>
    /\ UNCHANGED <<chan, stop_signal, buffer, app>>

\* the worker after its loop: run_fifo_mode disables the FIFO, the sensor
\* goes out of scope and the thread ends
WorkerEnd ==
    /\ app.worker = "streaming" /\ loop.status = "returned"
    /\ \E plan \in ExitPlans :
       \E r \in {drop(IF loop.cb = "run_fifo_mode" THEN disable_fifo(Ctx(plan)).c
                                                  ELSE Ctx(plan), chan)} :
       /\ fifo_enabled' = r.c.fifo_enabled
       /\ dev' = r.c.dev
       /\ bus' = r.c.bus
       /\ chan' = r.chan
       /\ loop' = [loop EXCEPT !.status = "exited"]
       /\ app' = [app EXCEPT !.worker = "exited"]
    /\ UNCHANGED <<result, stop_signal, buffer>>

\* disconnect_sensor up to thread.join(): the handle is taken, stop is set
Disconnect ==
    /\ app.gui = "connected"
    /\ stop_signal' = TRUE
    /\ app' = [app EXCEPT !.gui = "joining"]
    /\ UNCHANGED <<fifo_enabled, dev, bus, result, chan, loop, buffer>>

\* thread.join() returns once the worker thread has ended; disconnect_sensor
\* goes on to mode Idle
Join ==
    /\ app.gui = "joining" /\ app.worker = "exited"
    /\ app' = [app EXCEPT !.gui = "disconnected"]
    /\ UNCHANGED <<fifo_enabled, dev, bus, result, chan, loop, stop_signal, buffer>>

InitConnect ==
    /\ fifo_enabled = FALSE
    /\ dev = PowerOnDev(WHO_AM_I_VALUE)
    /\ bus = <<>>
    /\ result = [op |-> "none", arg |-> 0, err |-> "Ok", val |-> 0, pre |-> Pre]
    /\ chan = NoChan
    /\ loop = IdleLoop
    /\ stop_signal = FALSE
    /\ buffer = <<>>
    /\ app = IdleGui

NextConnect ==
    \/ Connect
    \/ MainDropWrite
    \/ MainClose
    \/ WorkerNew
    \/ WorkerEnable
    \/ WorkerTick
    \/ WorkerEnd
    \/ Disconnect
    \/ Join

SpecConnect == InitConnect /\ [][NextConnect]_vars

\* the same with both threads going on: a step a thread can take is taken
SpecConnectFair ==
    InitConnect /\ [][NextConnect]_vars
    /\ WF_vars(MainDropWrite) /\ WF_vars(MainClose)
    /\ WF_vars(WorkerNew) /\ WF_vars(WorkerEnable) /\ WF_vars(WorkerTick)
    /\ WF_vars(WorkerEnd) /\ WF_vars(Join)

(***************************************************************************)
(* Properties of the FIFO controller                                       *)
(***************************************************************************)
BusErrors == {"FtdiError", "TransferError"}

\* the registers disable_fifo, and with it the teardown, writes
DisableRegs == {REG_USER_CTRL, REG_FIFO_EN, REG_SMPLRT_DIV, REG_CONFIG}

\* entries of the log that touch register reg
Touching(log, reg) == {i \in 1..Len(log) : log[i].call # "sleep" /\ log[i].reg = reg}
\* data reads of register reg in the log
ReadsOf(log, reg) == {i \in 1..Len(log) : log[i].call = "read" /\ log[i].reg = reg}
IsWrite(e, reg, value) == e.call = "write" /\ e.bytes = <<reg, value>> /\ e.status = FT_OK

\* C1: read_fifo_batch on an Enabled controller that finds the overflow bit
\* set (and whose bus calls all succeed) reads the byte count, performs
\* reset_fifo and returns FifoOverflow with samples_lost = floor(count / 12)
\* (83 for 1000 bytes); it reads no FIFO data, the controller stays Enabled,
\* a later read_fifo_batch is not rejected with FifoNotEnabled, and a
\* get_fifo_count issued right after it reads 0.
C1_OverflowRecovery ==
    (/\ result.op = "read_fifo_batch"
     /\ result.pre.fifo_enabled
     /\ result.pre.overflow
     /\ result.err \notin BusErrors)
    => /\ result.err = "FifoOverflow"
       /\ result.val = result.pre.count \div 12
       /\ SamplesLost(1000) = 83
       /\ ReadsOf(bus, REG_FIFO_COUNTH) # {} /\ ReadsOf(bus, REG_FIFO_COUNTL) # {}
       /\ Touching(bus, REG_FIFO_R_W) = {}
       /\ Len(bus) = 9
       /\ IsWrite(bus[7], REG_USER_CTRL, USER_CTRL_FIFO_RESET + USER_CTRL_FIFO_EN)
       /\ bus[8].call = "sleep"
       /\ IsWrite(bus[9], REG_USER_CTRL, USER_CTRL_FIFO_EN)
       /\ fifo_enabled
       /\ read_fifo_batch(Ctx(NoFault)).err # "FifoNotEnabled"
       /\ get_fifo_count(Ctx(NoFault)).err = "Ok"
       /\ get_fifo_count(Ctx(NoFault)).val = 0

C1_Witness ==
    /\ result.op = "read_fifo_batch"
    /\ result.err = "FifoOverflow"
    /\ result.pre.count = FifoCapacity
    /\ result.val = 2
    /\ Len(dev.fifo) = 0

\* C6: enable_fifo(rate) with rate outside [4,1000] returns InvalidParameter,
\* issues no bus call at all (not even the disable sequence) and leaves the
\* tracked state as it was, from either state.
C6_EnableRejectsBadRate ==
    (result.op = "enable_fifo" /\ (result.arg < 4 \/ result.arg > 1000))
    => /\ result.err = "InvalidParameter"
       /\ bus = <<>>
       /\ fifo_enabled = result.pre.fifo_enabled

C6_Witness ==
    /\ result.op = "enable_fifo"
    /\ result.arg = 1001
    /\ result.err = "InvalidParameter"
    /\ result.pre.fifo_enabled
    /\ fifo_enabled

\* C8: on an Enabled controller with the overflow bit clear (and a bus that
\* does not fail), read_fifo_batch computes n = floor(count / 12); for n = 0 it
\* returns an empty batch and never addresses the FIFO data register, otherwise
\* it issues one burst read of exactly n * 12 bytes from the FIFO data register
\* and returns exactly n readings; the count mod 12 trailing bytes stay in the
\* FIFO.
C8_BatchIsFloor ==
    (/\ result.op = "read_fifo_batch"
     /\ result.pre.fifo_enabled
     /\ ~result.pre.overflow
     /\ result.err \notin BusErrors)
    => LET n == result.pre.count \div 12 IN
       /\ result.err = "Ok"
       /\ Len(result.val) = n
       /\ n = 0 => Touching(bus, REG_FIFO_R_W) = {}
       /\ n > 0 => /\ Cardinality(ReadsOf(bus, REG_FIFO_R_W)) = 1
                   /\ \A i \in ReadsOf(bus, REG_FIFO_R_W) : bus[i].size = n * 12
       /\ Len(dev.fifo) = result.pre.count % 12

C8_Witness ==
    /\ result.op = "read_fifo_batch"
    /\ result.err = "Ok"
    /\ result.pre.count = 18
    /\ Len(result.val) = 1
    /\ Len(dev.fifo) = 6

\* the 16-bit two's-complement value of the big-endian pair hi, lo
Signed16(hi, lo) == ((hi * 256 + lo + 2^15) % 2^16) - 2^15

\* the 14 measurement registers as the sensor holds them
MeasRegs == [i \in 1..14 |-> RegValue(dev, REG_ACCEL_XOUT_H + i - 1)]

\* C11: read_all performs exactly one burst read, of 14 bytes starting at the
\* accelerometer data register, and returns the reading decoded from bytes
\* 0..5 (accel x, y, z) and 8..13 (gyro x, y, z) as big-endian signed 16-bit
\* values, ignoring the temperature bytes 6..7; the reading equals what the
\* FIFO decoder yields for the same 12 bytes with the temperature removed.
C11_ReadAllDecodes ==
    (result.op = "read_all" /\ result.err = "Ok")
    => LET raw == MeasRegs IN
       /\ Len(bus) = 2
       /\ bus[1].call = "write" /\ bus[1].bytes = <<REG_ACCEL_XOUT_H>>
       /\ bus[2].call = "read" /\ bus[2].reg = REG_ACCEL_XOUT_H /\ bus[2].size = 14
       /\ result.val = [accel_x |-> Signed16(raw[1], raw[2]),
                        accel_y |-> Signed16(raw[3], raw[4]),
                        accel_z |-> Signed16(raw[5], raw[6]),
                        gyro_x |-> Signed16(raw[9], raw[10]),
                        gyro_y |-> Signed16(raw[11], raw[12]),
                        gyro_z |-> Signed16(raw[13], raw[14])]
       /\ parse_fifo_data(SubSeq(raw, 1, 6) \o SubSeq(raw, 9, 14))
             = [err |-> "Ok", val |-> <<result.val>>]

C11_Witness ==
    /\ result.op = "read_all"
    /\ result.err = "Ok"
    /\ dev.phase >= FIFO_SAMPLE_SIZE
    /\ result.val.gyro_x # Signed16(MeasRegs[7], MeasRegs[8])
    /\ \E f \in DOMAIN result.val : result.val[f] < 0

\* the divider of the claim, written without the model's operators
ExpectedDivider(rate) == IF 1000 \div rate >= 1 THEN (1000 \div rate) - 1 ELSE 0

\* C12: for every rate in [4,1000] the value enable_fifo writes to the
\* sample-rate-divider register equals max(0, floor(1000 / rate) - 1)
\* (1000 -> 0, 500 -> 1, 100 -> 9, 4 -> 249); it is never negative and fits
\* the 8-bit register without truncation.
C12_DividerWritten ==
    /\ (result.op = "enable_fifo" /\ result.err = "Ok")
       => /\ dev.regs[REG_SMPLRT_DIV] = ExpectedDivider(result.arg)
          /\ \E i \in 1..Len(bus) :
                /\ IsWrite(bus[i], REG_SMPLRT_DIV, ExpectedDivider(result.arg))
                /\ \A j \in (i + 1)..Len(bus) :
                      bus[j].call = "sleep" \/ bus[j].reg # REG_SMPLRT_DIV
    /\ result.op = "new"
       => /\ \A rate \in 4..1000 :
                LET r == enable_fifo(Ctx(NoFault), rate) IN
                /\ r.err = "Ok"
                /\ r.c.dev.regs[REG_SMPLRT_DIV] = ExpectedDivider(rate)
                /\ ExpectedDivider(rate) \in 0..255
          /\ <<ExpectedDivider(1000), ExpectedDivider(500), ExpectedDivider(100),
               ExpectedDivider(4)>> = <<0, 1, 9, 249>>

C12_Witness ==
    /\ result.op = "enable_fifo"
    /\ result.arg = 4
    /\ result.err = "Ok"
    /\ result.pre.fifo_enabled
    /\ dev.regs[REG_SMPLRT_DIV] = 249

\* C13: disable_fifo clears the user-control register, the FIFO routing mask,
\* the divider and the filter configuration and leaves the state Disabled; it
\* succeeds on a controller that is already Disabled, and a second call right
\* after a first succeeds and leaves the registers and the state as the first
\* left them.
C13_DisableIdempotent ==
    /\ (result.op = "disable_fifo" /\ result.err = "Ok")
       => /\ \A reg \in {REG_USER_CTRL, REG_FIFO_EN, REG_SMPLRT_DIV, REG_CONFIG} :
                dev.regs[reg] = 0
          /\ ~fifo_enabled
          /\ Len(bus) = 4
          /\ LET again == disable_fifo(Ctx(NoFault)) IN
             /\ again.err = "Ok"
             /\ again.c.dev = dev
             /\ ~again.c.fifo_enabled
    /\ (result.op = "disable_fifo" /\ result.err \notin BusErrors) => result.err = "Ok"

C13_Witness ==
    /\ result.op = "disable_fifo"
    /\ result.err = "Ok"
    /\ ~result.pre.fifo_enabled
    /\ ~fifo_enabled
    /\ dev.regs[REG_SMPLRT_DIV] = 0

\* the register writes of a log, in order
WritesOf(log) == SelectSeq(log, LAMBDA e : e.call = "write")

\* the writes the claim lists for enable_fifo(rate), as <<register, value>>
EnableWrites(was_enabled, rate) ==
    (IF was_enabled
     THEN << <<REG_USER_CTRL, 0>>, <<REG_FIFO_EN, 0>>, <<REG_SMPLRT_DIV, 0>>,
             <<REG_CONFIG, 0>> >>
     ELSE << >>)
    \o << <<REG_CONFIG, 1>>, <<REG_SMPLRT_DIV, ExpectedDivider(rate)>>,
          <<REG_USER_CTRL, USER_CTRL_FIFO_RESET>>,
          <<REG_FIFO_EN, 8 + 16 + 32 + 64>>,
          <<REG_USER_CTRL, USER_CTRL_FIFO_EN>> >>

\* C26 as stated: a successful enable_fifo writes the disable sequence (if
\* the controller was Enabled), filter config, divider, FIFO reset, routing
\* mask and FIFO-enable bit, in this order, then the state is Enabled; after
\* a bus fault at any write the state is not Enabled.
C26_FaultLeavesDisabled ==
    result.op = "enable_fifo"
    => /\ result.err = "Ok"
          => /\ fifo_enabled
             /\ [i \in 1..Len(WritesOf(bus)) |-> WritesOf(bus)[i].bytes]
                  = EnableWrites(result.pre.fifo_enabled, result.arg)
       /\ result.err = "FtdiError" => ~fifo_enabled

\* C26, amended: the writes of enable_fifo are a prefix of that sequence,
\* ending at the first one that fails; the state becomes Enabled only after
\* the last write succeeded; a bus fault leaves it Disabled, except a fault
\* within the disable sequence of a controller that was Enabled, which
\* leaves the state Enabled as it was.
C26_EnableOrder ==
    (result.op = "enable_fifo" /\ result.err # "InvalidParameter")
    => \E w \in {WritesOf(bus)}, exp \in {EnableWrites(result.pre.fifo_enabled, result.arg)} :
       /\ Len(w) <= Len(exp) /\ Len(w) >= 1
       /\ \A i \in 1..Len(w) : w[i].bytes = exp[i]
       /\ \A i \in 1..(Len(w) - 1) : w[i].status = FT_OK
       /\ result.err = "Ok" <=> (Len(w) = Len(exp) /\ w[Len(w)].status = FT_OK)
       /\ result.err # "Ok" => result.err = "FtdiError" /\ w[Len(w)].status # FT_OK
       /\ fifo_enabled <=> \/ result.err = "Ok"
                           \/ result.pre.fifo_enabled /\ Len(w) <= 4
       /\ (~result.pre.fifo_enabled /\ result.err # "Ok") => ~fifo_enabled

C26_Witness ==
    /\ result.op = "enable_fifo" /\ result.err = "Ok"
    /\ result.pre.fifo_enabled /\ fifo_enabled
    /\ result.arg = 4
    /\ Len(bus) = 10

\* C27: reset_fifo pulses the FIFO-reset bit and preserves the FIFO-enable
\* bit: after it completed, the enable bit of the user-control register has
\* the value it had before the call and the tracked state is unchanged.
C27_ResetPreservesEnable ==
    (result.op = "reset_fifo" /\ result.err = "Ok")
    => /\ HasBit(dev.regs[REG_USER_CTRL], USER_CTRL_FIFO_EN)
            = HasBit(result.pre.user_ctrl, USER_CTRL_FIFO_EN)
       /\ ~HasBit(dev.regs[REG_USER_CTRL], USER_CTRL_FIFO_RESET)
       /\ fifo_enabled = result.pre.fifo_enabled

\* C29: read_register writes the register address framed with START and
\* without STOP, then reads one byte framed with START, STOP and NACK-last;
\* a non-ok status of either phase gives the bus error (the read is not
\* issued after a failed write), an ok read reporting a count other than 1
\* gives TransferError{expected: 1, actual}, and otherwise the byte read is
\* returned.  Checked on get_fifo_count, which is two read_register calls.
C29_ReadRegisterFraming ==
    result.op = "get_fifo_count"
    => /\ Len(bus) \in 1..4
       /\ \A i \in 1..Len(bus) :
            \E reg \in {IF i <= 2 THEN REG_FIFO_COUNTH ELSE REG_FIFO_COUNTL} :
            IF i % 2 = 1
            THEN /\ bus[i].call = "write" /\ bus[i].bytes = <<reg>>
                 /\ START_BIT \in bus[i].options /\ STOP_BIT \notin bus[i].options
            ELSE /\ bus[i].call = "read" /\ bus[i].reg = reg /\ bus[i].size = 1
                 /\ bus[i].options = {START_BIT, STOP_BIT, NACK_LAST_BYTE}
       /\ \A i \in 1..(Len(bus) - 1) :
            bus[i].status = FT_OK /\ (bus[i].call = "read" => bus[i].transferred = 1)
       /\ \E last \in {bus[Len(bus)]} :
            /\ result.err = "FtdiError" <=> last.status # FT_OK
            /\ result.err = "TransferError"
               <=> (last.call = "read" /\ last.status = FT_OK /\ last.transferred # 1)
            /\ result.err = "TransferError"
               => result.val = [expected |-> 1, actual |-> last.transferred]
            /\ result.err = "Ok"
               <=> (Len(bus) = 4 /\ last.status = FT_OK /\ last.transferred = 1)
            /\ last.call = "write" => last.status # FT_OK
       /\ result.err = "Ok" => result.val = result.pre.count

C29_Witness ==
    /\ result.op = "get_fifo_count"
    /\ result.err = "TransferError"
    /\ result.val.actual = 0
    /\ Len(bus) = 2
    /\ bus[2].status = FT_OK

\* the operations made of write_register and read_registers calls only
FastOps == {"read_all", "enable_fifo", "disable_fifo", "reset_fifo"}

\* C30: under fast-transfer framing the outcome of write_register and
\* read_registers depends on the bus status alone: whatever transferred count
\* is reported they succeed when the status is ok and fail with the bus error
\* otherwise; TransferError comes from a call without fast-transfer framing
\* only.
C30_StatusOnly ==
    /\ (result.op \in FastOps /\ result.err # "InvalidParameter")
       => /\ \A i \in 1..Len(bus) :
               bus[i].call # "sleep" => FAST_TRANSFER_BYTES \in bus[i].options
          /\ result.err = "Ok" <=> \A i \in 1..Len(bus) : bus[i].status = FT_OK
          /\ result.err # "Ok" => result.err = "FtdiError"
    /\ result.err = "TransferError"
       => bus # <<>> /\ FAST_TRANSFER_BYTES \notin bus[Len(bus)].options

C30_Witness ==
    /\ result.op = "read_all" /\ result.err = "Ok"
    /\ Len(bus) = 2
    /\ bus[1].transferred = 8
    /\ bus[2].transferred = 0 /\ bus[2].size = 14

\* C33: the tracked state agrees with the device: fifo_enabled holds exactly
\* when the FIFO-enable bit of the user-control register is set, after any
\* sequence of enable_fifo, disable_fifo, reset_fifo and read_fifo_batch
\* calls, whatever the bus did.
C33_FlagMatchesEnableBit ==
    fifo_enabled <=> HasBit(dev.regs[REG_USER_CTRL], USER_CTRL_FIFO_EN)

(***************************************************************************)
(* Properties of the pacing loops, checked on SpecStream.                  *)
(***************************************************************************)
Paced == loop.status = "running" /\ loop.iters > 0

\* C2: in stream_fifo the callback is invoked exactly once on every tick, with
\* the batch read_fifo_batch returned on that tick, empty batches included, so
\* that a Break the callback decides on an empty-batch tick stops the loop.
C2_CallbackEveryTick ==
    loop.kind = "stream_fifo"
    => /\ loop.calls = loop.ticks
       /\ loop.ticks > 0 => loop.cb_batch = loop.batch
       /\ loop.decision = "Break" => loop.status # "running"

\* C3: once the stop flag is set, the worker's loop (run_fifo_mode,
\* run_polling_mode) exits at the next tick boundary: no second iteration
\* begins with the flag set, whatever the FIFO holds.
C3_StopExitsNextTick ==
    loop.cb \in LiveCallbacks => loop.after_stop <= 1

\* C4 as stated: after a tick that overran its deadline by several intervals,
\* a following fast tick is not run back-to-back: it sleeps.
C4_NoBurst ==
    (Paced /\ loop.lag_start >= 2 * loop.interval /\ loop.dur < loop.interval)
    => loop.slept

\* C4, amended: the deadlines of stream and stream_fifo stay on the grid
\* start + k * interval and are never re-based.  An iteration sleeps exactly
\* when it ends before its deadline, and then the next one starts on the
\* deadline; an iteration that ends late is followed immediately by the next
\* one, which inherits the lag less (interval - duration): after one tick that
\* overruns by several intervals the following fast ticks run back-to-back
\* until the loop is on the grid again.
C4_CatchUp ==
    Paced
    => /\ loop.next_time = loop.iters * loop.interval
       /\ loop.slept <=> loop.lag_start + loop.dur < loop.interval
       /\ loop.slept => loop.now = loop.next_time
       /\ ~loop.slept => loop.now - loop.next_time
                            = loop.lag_start + loop.dur - loop.interval

C4_Witness ==
    /\ Paced
    /\ loop.lag_start >= 2 * loop.interval
    /\ loop.dur < loop.interval
    /\ ~loop.slept
    /\ loop.now > loop.next_time

\* C7: read_fifo_batch on a Disabled controller returns FifoNotEnabled and
\* issues no bus transaction; stream_fifo on a Disabled controller returns
\* FifoNotEnabled without an iteration, a bus call or a callback invocation.
C7_DisabledRejected ==
    /\ (loop.kind = "none" /\ result.op = "read_fifo_batch" /\ ~result.pre.fifo_enabled)
       => /\ result.err = "FifoNotEnabled"
          /\ bus = <<>>
          /\ ~fifo_enabled
    /\ (loop.status = "returned" /\ result.op = "stream_fifo" /\ ~result.pre.fifo_enabled)
       => /\ result.err = "FifoNotEnabled"
          /\ bus = <<>>
          /\ loop.iters = 0 /\ loop.calls = 0

C7_Witness ==
    /\ loop.kind = "none"
    /\ result.op = "read_fifo_batch"
    /\ ~result.pre.fifo_enabled
    /\ result.err = "FifoNotEnabled"

\* C9: InvalidFifoConfig is unreachable through the controller: for every
\* 16-bit count the hardware can report the length read_fifo_batch reads and
\* hands to the decoder is a multiple of 12, every burst read of the FIFO data
\* register has such a length, and neither read_fifo_batch, stream_fifo nor
\* collect_samples_fifo returns InvalidFifoConfig.
C9_NoInvalidFifoConfig ==
    /\ result.err # "InvalidFifoConfig"
    /\ \A i \in ReadsOf(bus, REG_FIFO_R_W) : bus[i].size % FIFO_SAMPLE_SIZE = 0
    /\ (loop.kind = "none" /\ result.op = "new")
       => \A fifo_count \in 0..(2^16 - 1) :
             /\ BytesToRead(fifo_count) % FIFO_SAMPLE_SIZE = 0
             /\ BytesToRead(fifo_count) <= fifo_count

C9_Witness ==
    /\ loop.kind = "stream_fifo"
    /\ loop.status = "running"
    /\ ReadsOf(bus, REG_FIFO_R_W) # {}
    /\ Len(loop.batch) = 1
    /\ Len(dev.fifo) = FIFO_SAMPLE_SIZE \div 2

\* C14: when stream returns Ok(count), count is the number of read_all calls
\* performed and the number of callback invocations, and the loop stopped at
\* the first tick whose callback answered Break: until then every answer was
\* Continue.  A callback that breaks on its first invocation gives count 1
\* after one read_all.
C14_StreamCount ==
    loop.kind = "stream" /\ loop.api \in {"stream", "stream_for"}
    => /\ (loop.status # "running" /\ result.op = loop.api /\ result.err = "Ok")
          => /\ result.val = loop.iters
             /\ loop.calls = loop.iters
             /\ loop.read_sum = loop.iters
             /\ loop.decision = "Break"
       /\ Paced => loop.decision = "Continue" /\ loop.calls = loop.iters

C14_Witness ==
    /\ loop.api = "stream" /\ loop.cb = "user"
    /\ result.op = "stream" /\ result.err = "Ok"
    /\ result.val = 1
    /\ loop.iters = 1 /\ loop.calls = 1
    /\ Len(bus) = 2

\* a bus call the driver treats as failed: a non-ok status, or a wrong
\* transferred count where the count is checked (not under fast transfer)
FailedEntry(e) ==
    \/ e.status # FT_OK
    \/ e.call = "read" /\ FAST_TRANSFER_BYTES \notin e.options /\ e.transferred # e.size

\* C15: the pacing loops do not retry.  When the read of an iteration fails,
\* stream and stream_fifo return that error, the first one met (FifoOverflow
\* included): every earlier read had succeeded, the callback is not invoked
\* for that iteration, the failing bus call is the last one the loop issued,
\* and an iteration that went on holds no failed bus call and read the
\* status, or the measurement registers, once.
C15_NoRetry ==
    loop.kind \in {"stream", "stream_fifo"}
    => /\ (loop.status = "returned" /\ loop.iters > 0 /\ result.err # "Ok")
          => /\ result.op = loop.api
             /\ loop.ticks = loop.iters - 1
             /\ loop.cb_sum = loop.read_sum
             /\ loop.kind = "stream" => loop.calls = loop.ticks
             /\ loop.calls <= loop.ticks
             /\ result.err \in BusErrors \cup {"FifoOverflow"}
             /\ result.err \in BusErrors
                => /\ bus # <<>>
                   /\ FailedEntry(bus[Len(bus)])
                   /\ \A i \in 1..(Len(bus) - 1) : ~FailedEntry(bus[i])
             /\ result.err = "FifoOverflow"
                => /\ \A i \in 1..Len(bus) : ~FailedEntry(bus[i])
                   /\ Touching(bus, REG_FIFO_R_W) = {}
                   /\ Cardinality(ReadsOf(bus, REG_INT_STATUS)) = 1
       /\ Paced
          => /\ \A i \in 1..Len(bus) : ~FailedEntry(bus[i])
             /\ Cardinality(ReadsOf(bus, REG_INT_STATUS)) <= 1
             /\ Cardinality(ReadsOf(bus, REG_ACCEL_XOUT_H)) <= 1

C15_Witness ==
    /\ loop.api = "stream_fifo" /\ loop.cb = "user"
    /\ loop.status = "returned"
    /\ result.err = "FifoOverflow"
    /\ loop.iters = 2 /\ loop.calls = 1

\* C16: stream, and through it stream_for and collect_samples, called with
\* rate 0 or a rate above 1000 returns InvalidParameter without a bus call, an
\* iteration or a callback invocation; every rate in 1..1000 is accepted.
C16_StreamRejectsBadRate ==
    /\ (loop.kind = "stream" /\ (loop.rate = 0 \/ loop.rate > 1000))
       => /\ loop.status = "returned"
          /\ result.op = loop.api
          /\ result.err = "InvalidParameter"
          /\ bus = <<>>
          /\ loop.iters = 0 /\ loop.calls = 0
    /\ (loop.kind = "stream" /\ loop.rate \in 1..1000 /\ loop.iters = 0)
       => loop.status = "running"
    /\ (loop.kind = "none" /\ result.op = "new")
       => /\ \A rate_hz \in 1..1000 : StreamRateOk(rate_hz)
          /\ ~StreamRateOk(0) /\ ~StreamRateOk(1001)

C16_Witness ==
    /\ loop.api = "collect_samples"
    /\ loop.rate = 0
    /\ result.op = "collect_samples"
    /\ result.err = "InvalidParameter"
    /\ bus = <<>>

\* C17 as stated: stream_fifo with batch_interval_ms outside [10,1000] returns
\* InvalidParameter, without a bus call or a callback invocation, whether the
\* controller is Enabled or Disabled.
C17_BadIntervalAlwaysInvalid ==
    (loop.api = "stream_fifo" /\ loop.arg \notin 10..1000)
    => /\ result.op = "stream_fifo"
       /\ result.err = "InvalidParameter"
       /\ bus = <<>>
       /\ loop.calls = 0

\* C17, amended: stream_fifo with batch_interval_ms outside [10,1000] is
\* rejected without a bus call, an iteration or a callback invocation and
\* leaves the state as it was; the error is InvalidParameter on an Enabled
\* controller and FifoNotEnabled on a Disabled one, whose check comes first.
\* On an Enabled controller 10 and 1000 are accepted.
C17_BadIntervalRejected ==
    loop.api = "stream_fifo"
    => /\ loop.arg \notin 10..1000
          => /\ loop.status = "returned"
             /\ result.op = "stream_fifo"
             /\ result.err = (IF loop.pre.fifo_enabled THEN "InvalidParameter"
                                                       ELSE "FifoNotEnabled")
             /\ bus = <<>>
             /\ loop.iters = 0 /\ loop.calls = 0
             /\ fifo_enabled = loop.pre.fifo_enabled
       /\ (loop.arg \in 10..1000 /\ loop.pre.fifo_enabled /\ loop.iters = 0)
          => loop.status = "running"

C17_Witness ==
    /\ loop.api = "stream_fifo"
    /\ loop.arg = 9
    /\ ~loop.pre.fifo_enabled
    /\ result.op = "stream_fifo"
    /\ result.err = "FifoNotEnabled"

\* C18: when stream_fifo returns Ok(total), total is the sum of the lengths of
\* all batches read during the loop and the sum of the lengths of the batches
\* passed to the callback, the one it answered Break on included; empty
\* batches add nothing.
C18_TotalIsSum ==
    loop.api = "stream_fifo"
    => /\ loop.count = loop.read_sum /\ loop.count = loop.cb_sum
       /\ (loop.status # "running" /\ result.op = "stream_fifo" /\ result.err = "Ok")
          => /\ result.val = loop.read_sum
             /\ result.val = loop.cb_sum
             /\ loop.cb_batch = loop.batch /\ loop.batch # <<>>

C18_Witness ==
    /\ loop.api = "stream_fifo" /\ loop.cb = "user"
    /\ result.op = "stream_fifo" /\ result.err = "Ok"
    /\ result.val = 3
    /\ loop.iters = 3 /\ loop.calls = 2
    /\ Len(loop.batch) = 2

\* C19: collect_samples_fifo(rate, n), whenever it returns Ok, returns exactly
\* n readings: the first n of the concatenation, in delivery order, of the
\* batches read after its reset, also when the last batch takes the
\* accumulator past n.
C19_ExactlyN ==
    (result.op = "collect_samples_fifo" /\ result.err = "Ok")
    => /\ Len(result.val) = loop.arg
       /\ Len(loop.delivered) >= loop.arg
       /\ result.val = SubSeq(loop.delivered, 1, loop.arg)

C19_Witness ==
    /\ result.op = "collect_samples_fifo" /\ result.err = "Ok"
    /\ loop.arg = 3
    /\ Len(loop.delivered) = 4
    /\ Len(result.val) = 3
    /\ result.val[1] # result.val[2]

\* C20: collect_samples_fifo(rate, n) rejects a rate outside [4,1000] with
\* InvalidParameter, and when its batch loop starts the state is Enabled and
\* the sample-rate-divider register holds divider(rate), whether the
\* controller was Disabled or Enabled, at this or another rate, before.
C20_EnabledAtRate ==
    loop.api = "collect_samples_fifo"
    => /\ loop.rate \notin 4..1000
          => result.op = "collect_samples_fifo" /\ result.err = "InvalidParameter"
       /\ (loop.status = "running" /\ loop.iters = 0)
          => /\ fifo_enabled
             /\ dev.regs[REG_SMPLRT_DIV] = ExpectedDivider(loop.rate)

\* C21 as stated: collect_samples(rate, n) returns exactly n readings after
\* exactly n reads, for every n >= 0.
C21_ExactlyNReads ==
    (result.op = "collect_samples" /\ result.err = "Ok")
    => /\ Len(result.val) = loop.arg
       /\ loop.iters = loop.arg

\* C21, amended: collect_samples(rate, n) returns max(n, 1) readings, in
\* acquisition order, after max(n, 1) reads: exactly n for n >= 1, and one
\* reading after one read for n = 0, because the closure stores the reading
\* before it compares the length with n.
C21_AtLeastOneRead ==
    loop.api = "collect_samples"
    => /\ (result.op = "collect_samples" /\ result.err = "Ok")
          => /\ Len(result.val) = Max(loop.arg, 1)
             /\ loop.iters = Max(loop.arg, 1)
             /\ loop.read_sum = loop.iters /\ loop.calls = loop.iters
             /\ result.val = loop.delivered
       /\ Paced => Len(loop.samples) = loop.iters /\ loop.iters < loop.arg

C21_Witness ==
    /\ result.op = "collect_samples" /\ result.err = "Ok"
    /\ loop.arg = 3
    /\ Len(result.val) = 3
    /\ result.val[1] # result.val[2]

\* C25: when the receiving end of the sample channel is dropped, the worker's
\* closure answers Break at its first invocation after that (the first failed
\* send): it is invoked at most once with the receiver gone, stream or
\* stream_fifo then returns the count, and the worker fetches no further
\* reading: what it still sends on the bus are the writes of its teardown.
C25_DisconnectStops ==
    loop.cb \in LiveCallbacks
    => /\ loop.after_drop <= 1
       /\ loop.after_drop = 1
          => /\ loop.status # "running"
             /\ loop.decision = "Break"
             /\ result.op = loop.api /\ result.err = "Ok"
             /\ result.val = loop.count
             /\ loop.cb_sum = loop.count
       /\ loop.status = "exited"
          => \A i \in 1..Len(bus) : bus[i].call = "write" /\ bus[i].reg \in DisableRegs

C25_Witness ==
    /\ loop.cb = "run_fifo_mode"
    /\ loop.tx = "disconnected" /\ ~stop_signal
    /\ loop.after_drop = 1
    /\ loop.iters = 3 /\ loop.calls = 2
    /\ loop.status = "exited"
    /\ Len(bus) = 8

\* C36: in stream and stream_fifo the deadline, after it was advanced, never
\* lies more than one interval ahead of the current time: the loop sleeps
\* exactly when the deadline is ahead, until the deadline, and never longer
\* than one interval; every iteration starts at or after its deadline.
C36_DeadlineWithinInterval ==
    Paced
    => /\ loop.ahead <= loop.interval
       /\ loop.slept <=> loop.ahead > 0
       /\ loop.slept => loop.now = loop.next_time
       /\ loop.now >= loop.next_time

C36_Witness ==
    /\ Paced /\ loop.kind = "stream_fifo" /\ loop.iters = 2
    /\ loop.slept /\ loop.ahead = loop.interval \div 2
    /\ loop.lag_start = 0

\* C37: fifo_enabled is changed only by enable_fifo and disable_fifo: in a
\* step of get_fifo_count, reset_fifo, read_fifo_batch (batch or overflow
\* path), read_all, stream, stream_for, collect_samples or stream_fifo it
\* keeps its value; it changes only where collect_samples_fifo calls
\* enable_fifo on a Disabled controller and where the worker's exit calls
\* disable_fifo.
C37_FlagFrame ==
    [][fifo_enabled' # fifo_enabled
       => \/ /\ loop.kind = "none" /\ loop'.api = "collect_samples_fifo"
             /\ ~fifo_enabled /\ fifo_enabled'
          \/ /\ loop.status = "returned" /\ loop'.status = "exited"
             /\ fifo_enabled /\ ~fifo_enabled']_vars

\* reset_fifo called on a Disabled controller set the device's enable bit and
\* left the tracked state alone
C37_Witness ==
    /\ loop.kind = "direct" /\ loop.api = "reset_fifo"
    /\ result.err = "Ok"
    /\ HasBit(dev.regs[REG_USER_CTRL], USER_CTRL_FIFO_EN)
    /\ ~result.pre.fifo_enabled /\ ~fifo_enabled

(***************************************************************************)
(* Properties of stream_for, checked on SpecStreamFor.                     *)
(***************************************************************************)
\* the time at which the callback of the latest iteration ended
Completed(lp) ==
    IF lp.status = "running" THEN lp.next_time - lp.interval + lp.lag_start + lp.dur
    ELSE lp.now

\* C22: stream_for invokes the caller's callback for each reading and tests
\* the deadline only after it: the loop goes on while the callback ended
\* before start + duration and returns at the first iteration whose callback
\* ended at or after it, so the callback was invoked at least once, also for
\* duration zero; with time advancing the call always returns.
C22_DeadlineAfterCallback ==
    /\ []((loop.api = "stream_for" /\ loop.iters > 0)
          => /\ loop.status = "running"
                => loop.calls = loop.iters /\ Completed(loop) < loop.arg
             /\ (result.op = "stream_for" /\ result.err = "Ok")
                => /\ loop.calls = loop.iters /\ loop.calls >= 1
                   /\ result.val = loop.calls
                   /\ Completed(loop) >= loop.arg)
    /\ (loop.api = "stream_for" /\ loop.status = "running")
       ~> (loop.api = "stream_for" /\ loop.status = "returned")

C22_Witness ==
    /\ result.op = "stream_for" /\ result.err = "Ok"
    /\ loop.arg = 0
    /\ result.val = 1 /\ loop.calls = 1

\* C23: when every read and callback of stream_for took less than one
\* interval, the iterations started exactly one interval apart from the
\* loop's start, and the returned count is within 1 of rate * elapsed time
\* (times in microseconds).
C23_CountTracksTime ==
    (loop.api = "stream_for" /\ loop.iters > 0 /\ ~loop.late)
    => /\ loop.lag_start = 0
       /\ loop.status = "running"
          => loop.slept /\ loop.now = loop.next_time
                        /\ loop.now = loop.iters * loop.interval
       /\ (result.op = "stream_for" /\ result.err = "Ok")
          => /\ loop.now - loop.dur = (loop.iters - 1) * loop.interval
             /\ (result.val - 1) * 1000000 <= loop.rate * loop.now
             /\ loop.rate * loop.now <= (result.val + 1) * 1000000

C23_Witness ==
    /\ result.op = "stream_for" /\ result.err = "Ok"
    /\ ~loop.late
    /\ result.val = 2
    /\ loop.now = 1500 /\ loop.dur > 0

(***************************************************************************)
(* Properties of construction and teardown, checked on SpecLife.           *)
(***************************************************************************)
\* C5: a channel handle that was opened is closed exactly once on every
\* path: when I2C_InitChannel fails, when init fails after the handle was
\* configured, and when the driver is dropped; the drop closes the handle
\* even if disable_fifo's register writes fail, and reports nothing.
C5_ClosedExactlyOnce ==
    /\ chan.closes <= chan.opens /\ chan.opens <= 1
    /\ chan.state = "open" <=> (chan.opens = 1 /\ chan.closes = 0)
    /\ (result.op = "new" /\ result.err # "Ok") => chan.closes = chan.opens
    /\ (result.op \in {"new", "enable_fifo", "disable_fifo"} /\ result.err = "Ok")
       => chan.state = "open"
    /\ result.op = "drop"
       => /\ chan.opens = 1 /\ chan.closes = 1
          /\ result.err = "Ok"

C5_Witness ==
    /\ result.op = "drop"
    /\ result.val \in BusErrors
    /\ result.pre.fifo_enabled /\ fifo_enabled
    /\ chan.state = "closed"
    /\ chan.closes = 1

\* C24: new(i) fails with NoChannelsFound when the library reports zero
\* channels, whatever i is, and with InvalidChannel(i) when the count is
\* positive and i >= count; in both cases no channel is opened and nothing
\* is sent on the bus.
C24_ChannelChecks ==
    result.op = "new"
    => /\ (result.lib.num_status = FT_OK /\ result.lib.num_channels = 0)
          => result.err = "NoChannelsFound"
       /\ (result.lib.num_status = FT_OK /\ result.lib.num_channels > 0
             /\ result.arg >= result.lib.num_channels)
          => result.err = "InvalidChannel" /\ result.val = result.arg
       /\ result.err = "NoChannelsFound" => result.lib.num_channels = 0
       /\ result.err = "InvalidChannel"
          => result.lib.num_channels > 0 /\ result.arg >= result.lib.num_channels
       /\ result.err \in {"NoChannelsFound", "InvalidChannel"}
          => /\ chan = NoChan
             /\ bus = <<>>
             /\ dev = PowerOnDev(dev.who)

C24_Witness ==
    /\ result.op = "new"
    /\ result.err = "InvalidChannel"
    /\ result.arg = 1 /\ result.lib.num_channels = 1
    /\ result.lib.open_status = FT_OK
    /\ chan.opens = 0

\* the steps of bring-up, as entries of the bus log
InitSteps ==
    << [call |-> "write", reg |-> REG_PWR_MGMT_1, size |-> 2, bytes |-> <<REG_PWR_MGMT_1, 0>>],
       [call |-> "sleep", reg |-> 0, size |-> 100, bytes |-> <<>>],
       [call |-> "write", reg |-> REG_WHO_AM_I, size |-> 1, bytes |-> <<REG_WHO_AM_I>>],
       [call |-> "read", reg |-> REG_WHO_AM_I, size |-> 1, bytes |-> <<>>],
       [call |-> "write", reg |-> REG_ACCEL_CONFIG, size |-> 2, bytes |-> <<REG_ACCEL_CONFIG, 0>>],
       [call |-> "write", reg |-> REG_GYRO_CONFIG, size |-> 2, bytes |-> <<REG_GYRO_CONFIG, 0>> ] >>

StepOf(e) == [call |-> e.call, reg |-> e.reg, size |-> e.size, bytes |-> e.bytes]

\* C28: bring-up runs wake-up write (sleep bit cleared), settle delay,
\* identity read, accelerometer-range write, gyroscope-range write, in this
\* order; an identity other than 0x68 fails new with InvalidDeviceId(got)
\* and the range registers are never written; a bus fault at a step aborts
\* the remaining steps (what follows on the bus is the teardown only).
C28_BringUpOrder ==
    (result.op = "new" /\ bus # <<>>)
    => /\ \E n \in 1..6 :
            /\ Len(bus) >= n
            /\ \A i \in 1..n : StepOf(bus[i]) = InitSteps[i]
            /\ \A i \in 1..(n - 1) : bus[i].status = FT_OK
            /\ \A j \in (n + 1)..Len(bus) :
                   bus[j].call = "write" /\ bus[j].size = 2 /\ bus[j].reg \in DisableRegs
            /\ result.err = "Ok" <=> (n = 6 /\ bus[n].status = FT_OK)
            /\ bus[n].status # FT_OK => result.err = "FtdiError"
            /\ (n < 6 /\ bus[n].status = FT_OK)
               => n = 4 /\ result.err \in {"InvalidDeviceId", "TransferError"}
       /\ result.err = "Ok" => Len(bus) = 6 /\ dev.who = WHO_AM_I_VALUE
       /\ bus[1].status = FT_OK => dev.regs[REG_PWR_MGMT_1] = 0
       /\ result.err = "InvalidDeviceId"
          => /\ result.val = dev.who /\ result.val # WHO_AM_I_VALUE
             /\ Touching(bus, REG_ACCEL_CONFIG) = {}
             /\ Touching(bus, REG_GYRO_CONFIG) = {}
       /\ (dev.who # WHO_AM_I_VALUE /\ Len(bus) >= 4
             /\ \A i \in 1..4 : bus[i].status = FT_OK)
          => result.err = "InvalidDeviceId"

C28_Witness ==
    /\ result.op = "new"
    /\ result.err = "InvalidDeviceId"
    /\ result.val = 0
    /\ Len(bus) = 8
    /\ chan.closes = 1

\* the two-byte writes (register, value) of a bus log
RegisterWrites(log) == SelectSeq(log, LAMBDA e : e.call = "write" /\ e.size = 2)

C31_SingleOwner ==
    app.foreign = 0

\* C32: disconnect_sensor always returns: once it has set the stop flag and
\* waits for the worker thread, it eventually goes on to mode Idle, also if
\* the worker thread never leaves its loop.
C32_DisconnectReturns ==
    (app.gui = "joining") ~> (app.gui = "disconnected")

(***************************************************************************)
(* Properties of read_fifo_batch step by step, checked on SpecBatch.       *)
(***************************************************************************)
BatchDone == app.pc = "done" /\ result.op = "read_fifo_batch"

C38_ContinuedAreWritten ==
    (app.mode = "collect_polling" /\ app.status = "returned")
    => \A n \in app.continued : \E i \in 1..Len(app.written) : app.written[i] = n

(***************************************************************************)
(* Properties of the decoder, checked on SpecDecode.                       *)
(***************************************************************************)
\* the 16-bit two's-complement value of the big-endian pair at bytes b, b + 1
\* (counted from 0) of the buffer
WordAt(b) == ((buffer[b + 1] * 256 + buffer[b + 2] + 2^15) % 2^16) - 2^15

\* C10: the decoder accepts exactly the buffers whose length is a multiple of
\* 12 (the others fail with InvalidFifoConfig) and yields length / 12 readings
\* in buffer order; reading k is built from bytes [12k, 12k + 12) as six
\* big-endian two's-complement 16-bit values in the order accel x, y, z,
\* gyro x, y, z.
C10_Decode ==
    result.op = "parse_fifo_data"
    => LET length == Len(buffer) IN
       /\ length % 12 # 0 => result.err = "InvalidFifoConfig"
       /\ length % 12 = 0 =>
            /\ result.err = "Ok"
            /\ Len(result.val) = length \div 12
            /\ \A k \in 0..(length \div 12 - 1) :
                 result.val[k + 1] = [accel_x |-> WordAt(12 * k),
                                      accel_y |-> WordAt(12 * k + 2),
                                      accel_z |-> WordAt(12 * k + 4),
                                      gyro_x |-> WordAt(12 * k + 6),
                                      gyro_y |-> WordAt(12 * k + 8),
                                      gyro_z |-> WordAt(12 * k + 10)]

C10_Witness ==
    /\ result.op = "parse_fifo_data"
    /\ Len(buffer) = 24
    /\ result.err = "Ok"
    /\ Len(result.val) = 2
    /\ buffer[23] = 255 /\ result.val[2].gyro_z < 0
    /\ result.val[2].accel_x = WordAt(12)
    /\ result.val[1] # result.val[2]

====
